---- MODULE Spec2Model ----
(***************************************************************************)
(* Model of aioghost.client.GhostAdminAPI: the authenticated-request       *)
(* pipeline (token generation, session lifecycle, status classification).  *)
(*                                                                         *)
(* Strings of the program (credentials) are sequences of one-character     *)
(* strings over Alphabet.  A session is an integer identifier; None is 0.  *)
(* The HTTP library is the environment: a call ends either in a transport  *)
(* exception or in a response (status, body); a body is described by what  *)
(* aiohttp's response.json() and response.text() do with it.               *)
(***************************************************************************)
EXTENDS Integers, Sequences, FiniteSets, TLC

\* ---- bounds of the model -------------------------------------------------
MaxKeyLen == 4
MaxNow == 2
TicksPerSecond == 2
MaxSessions == 3
MaxUrlLen == 4
MaxSeries == 2
MaxCount == 8
MaxPosts == 3

\* ---- program constants ---------------------------------------------------
JWT_EXPIRY_MINUTES == 5
None == 0

VARIABLES
    admin_api_key,   \* self.admin_api_key
    session,         \* self._session (None or a session identifier)
    owns_session,    \* self._owns_session
    sessions,        \* every aiohttp.ClientSession object: who made it, closed?
    now,             \* wall clock, in ticks of 1/TicksPerSecond second
    scope,           \* position of the caller relative to "async with api:"
    last,            \* the last call made: its inputs and its outcome
    api_url,         \* self.api_url
    constructed,     \* a client object exists (__init__ has returned)
    mcall            \* the constructor or resource-method call being followed

vars == <<admin_api_key, session, owns_session, sessions, now, scope, last,
          api_url, constructed, mcall>>

\* What the request primitive and the session life cycle leave alone.
others == <<api_url, constructed, mcall>>

\* ==== credentials and token generation ===================================

\* "a": a hexadecimal digit; "z": alphanumeric, not hexadecimal; "-": neither.
Alphabet == {"a", "z", "_", "-", " ", ":"}

IsHexDigit(c) == c = "a"
IsSpace(c) == c = " "

RECURSIVE SeqsUpTo(_)
SeqsUpTo(n) ==
    IF n = 0 THEN {<<>>}
    ELSE LET shorter == SeqsUpTo(n - 1)
         IN  shorter \cup {Append(s, c) : s \in {t \in shorter : Len(t) = n - 1}, c \in Alphabet}

AllKeys == SeqsUpTo(MaxKeyLen)

\* str.split(":"): the list of the parts between the colons.
RECURSIVE Split(_)
Split(s) ==
    IF s = <<>> THEN << <<>> >>
    ELSE LET rest == Split(Tail(s))
         IN  IF Head(s) = ":" THEN << <<>> >> \o rest
             ELSE << <<Head(s)>> \o Head(rest) >> \o Tail(rest)

\* bytes.fromhex(secret): whitespace is skipped between bytes, each byte is
\* two hexadecimal digits; anything else raises ValueError.
RECURSIVE FromHex(_)
FromHex(s) ==
    IF s = <<>> THEN [ok |-> TRUE, bytes |-> <<>>]
    ELSE IF IsSpace(Head(s)) THEN FromHex(Tail(s))
    ELSE IF Len(s) >= 2 /\ IsHexDigit(s[1]) /\ IsHexDigit(s[2])
         THEN LET rest == FromHex(SubSeq(s, 3, Len(s)))
              IN  [ok |-> rest.ok, bytes |-> IF rest.ok THEN <<s[1], s[2]>> \o rest.bytes ELSE <<>>]
    ELSE [ok |-> FALSE, bytes |-> <<>>]

NoToken ==
    [header |-> [alg |-> "-", kid |-> <<>>, typ |-> "-"],
     payload |-> [iat |-> 0, exp |-> 0, aud |-> "-"],
     key |-> <<>>]

\* int(datetime.timestamp()) of a time given in ticks.
Timestamp(t) == t \div TicksPerSecond

\* timedelta(minutes = m) in ticks.
Minutes(m) == m * 60 * TicksPerSecond

\* A slip in the expiry: JWT_EXPIRY_MINUTES taken as seconds, the whole key as kid.
GenerateToken_slip(key, t) ==
    LET parts == Split(key)
    IN  IF Len(parts) # 2
        THEN [ok |-> FALSE, exc |-> "GhostAuthError",
              msg |-> "Invalid API key format. Expected 'id:secret'", token |-> NoToken]
        ELSE LET hex == FromHex(parts[2])
             IN  IF ~hex.ok
                 THEN [ok |-> FALSE, exc |-> "GhostAuthError",
                       msg |-> "Invalid API key secret. Expected hex string.", token |-> NoToken]
                 ELSE [ok |-> TRUE, exc |-> "-", msg |-> "-",
                       token |-> [header |-> [alg |-> "HS256", kid |-> key, typ |-> "JWT"],
                                  payload |-> [iat |-> Timestamp(t),
                                               exp |-> Timestamp(t + JWT_EXPIRY_MINUTES * TicksPerSecond),
                                               aud |-> "/admin/"],
                                  key |-> hex.bytes]]

\* The ValueError of bytes.fromhex (or of the unpacking) left uncaught.
GenerateToken_uncaught(key, t) ==
    LET parts == Split(key)
    IN  IF Len(parts) # 2
        THEN [ok |-> FALSE, exc |-> IF Len(parts) > 2 THEN "ValueError" ELSE "GhostAuthError",
              msg |-> "Invalid API key format. Expected 'id:secret'", token |-> NoToken]
        ELSE LET hex == FromHex(parts[2])
             IN  IF ~hex.ok
                 THEN [ok |-> FALSE, exc |-> "ValueError", msg |-> "-", token |-> NoToken]
                 ELSE [ok |-> TRUE, exc |-> "-", msg |-> "-",
                       token |-> [header |-> [alg |-> "HS256", kid |-> parts[1], typ |-> "JWT"],
                                  payload |-> [iat |-> Timestamp(t),
                                               exp |-> Timestamp(t + Minutes(JWT_EXPIRY_MINUTES)),
                                               aud |-> "/admin/"],
                                  key |-> hex.bytes]]

\* GhostAdminAPI._generate_token for credential key at time t.
GenerateToken(key, t) ==
    LET parts == Split(key)
    IN  IF Len(parts) # 2
        THEN [ok |-> FALSE, exc |-> "GhostAuthError",
              msg |-> "Invalid API key format. Expected 'id:secret'", token |-> NoToken]
        ELSE LET hex == FromHex(parts[2])
             IN  IF ~hex.ok
                 THEN [ok |-> FALSE, exc |-> "GhostAuthError",
                       msg |-> "Invalid API key secret. Expected hex string.", token |-> NoToken]
                 ELSE [ok |-> TRUE, exc |-> "-", msg |-> "-",
                       token |-> [header |-> [alg |-> "HS256", kid |-> parts[1], typ |-> "JWT"],
                                  payload |-> [iat |-> Timestamp(t),
                                               exp |-> Timestamp(t + Minutes(JWT_EXPIRY_MINUTES)),
                                               aud |-> "/admin/"],
                                  key |-> hex.bytes]]

\* GhostAdminAPI._get_auth_headers, with a token cached from the last call.
GetAuthHeaders_cached ==
    IF last.tok.ok THEN last.tok ELSE GenerateToken(admin_api_key, now)

\* GhostAdminAPI._get_auth_headers: the outcome of building the Authorization
\* header (the Accept-Version header is fixed).
GetAuthHeaders == GenerateToken(admin_api_key, now)

\* ==== the HTTP library, as the request primitive sees it ==================

\* Exceptions session.request raises instead of delivering a response.
\* ClientConnectorDNSError (DNS), ClientConnectorError (TCP) and ClientSSLError
\* (TLS) derive from aiohttp.ClientError; the total timeout of a session raises
\* asyncio.TimeoutError, which does not.
TransportErrors == {"ClientConnectorDNSError", "ClientConnectorError", "ClientSSLError",
                    "TimeoutError"}

\* ContentTypeError is what response.json() raises on a non-JSON content type.
AiohttpClientErrors == {"ClientConnectorDNSError", "ClientConnectorError", "ClientSSLError",
                        "ServerTimeoutError", "ContentTypeError"}

\* isinstance(err, aiohttp.ClientError)
IsClientError(exc) == exc \in AiohttpClientErrors

Statuses == {200, 399, 400, 401, 404, 422, 500}

\* Decoded JSON values, as far as the request primitive looks into them.
Item(t, message) == [t |-> t, message |-> message]
Errors(t, items) == [t |-> t, items |-> items]
Data(t, errors) == [t |-> t, errors |-> errors]
AbsentErrors == Errors("absent", <<>>)
NoData == Data("-", AbsentErrors)
JsonNull == Data("null", AbsentErrors)

JsonValues ==
    { Data("dict", AbsentErrors),                                            \* {}
      Data("dict", Errors("list", <<>>)),                                    \* {"errors": []}
      Data("dict", Errors("list", <<Item("dict", "absent")>>)),             \* {"errors": [{}]}
      Data("dict", Errors("list", <<Item("dict", "Invalid target URL")>>)),
      Data("dict", Errors("list", <<Item("str", "absent")>>)),              \* {"errors": ["x"]}
      Data("dict", Errors("null", <<>>)),                                    \* {"errors": null}
      Data("list", AbsentErrors),                                            \* []
      JsonNull }                                                             \* null

\* A response body: its Content-Type, and what its bytes are.
Body(ctype, raw, data) == [ctype |-> ctype, raw |-> raw, data |-> data]
NoBody == Body("-", "-", NoData)

Bodies ==
    { Body("application/json", "json", d) : d \in JsonValues }
    \cup { Body("application/json", "empty", NoData),
           Body("application/json", "badjson", NoData),
           Body("application/json", "badcharset", NoData),
           Body("text/html", "text", NoData) }

\* await response.json(): content type check, empty body, charset, parse.
ResponseJson(body) ==
    IF body.ctype # "application/json" THEN [err |-> "ContentTypeError", data |-> NoData]
    ELSE IF body.raw = "empty" THEN [err |-> "-", data |-> JsonNull]
    ELSE IF body.raw = "badcharset" THEN [err |-> "UnicodeDecodeError", data |-> NoData]
    ELSE IF body.raw # "json" THEN [err |-> "JSONDecodeError", data |-> NoData]
    ELSE [err |-> "-", data |-> body.data]

\* await response.text()
ResponseText(body) ==
    IF body.raw = "badcharset" THEN [err |-> "UnicodeDecodeError", text |-> NoBody]
    ELSE [err |-> "-", text |-> body]

\* What the network does with one HTTP call.
NetOutcomes ==
    { [transport |-> e, status |-> 0, body |-> NoBody] : e \in TransportErrors }
    \cup { [transport |-> "-", status |-> st, body |-> b] : st \in Statuses, b \in Bodies }

NoNet == [transport |-> "-", status |-> 0, body |-> NoBody]

\* The outcomes the life-cycle specification draws from: a transport failure,
\* a success and an error status.
LifecycleNets ==
    { [transport |-> "ClientConnectorError", status |-> 0, body |-> NoBody],
      [transport |-> "-", status |-> 200, body |-> Body("application/json", "json", Data("dict", AbsentErrors))],
      [transport |-> "-", status |-> 401, body |-> Body("application/json", "json", Data("dict", AbsentErrors))] }

\* ==== outcomes of a call ==================================================

Outcome(kind, exc, msg, status, endpoint, text, cause, value) ==
    [kind |-> kind, exc |-> exc, msg |-> msg, status |-> status, endpoint |-> endpoint,
     text |-> text, cause |-> cause, value |-> value]

Return(value) == Outcome("return", "-", "-", 0, "-", NoBody, "-", value)
Raise(exc, msg) == Outcome("raise", exc, msg, 0, "-", NoBody, "-", NoData)
NoOutcome == Outcome("-", "-", "-", 0, "-", NoBody, "-", NoData)

GhostAuthError(msg) == Raise("GhostAuthError", msg)
GhostNotFoundError(endpoint) ==
    Outcome("raise", "GhostNotFoundError", "Resource not found: ", 0, endpoint, NoBody, "-", NoData)
GhostValidationError(msg) == Raise("GhostValidationError", msg)
GhostError(status, text) ==
    Outcome("raise", "GhostError", "API error ", status, "-", text, "-", NoData)
GhostConnectionError(cause) ==
    Outcome("raise", "GhostConnectionError", "Connection failed: ", 0, "-", NoBody, cause, NoData)

\* None, which is also what JSON null decodes to.
PyNone == JsonNull

\* The client object itself, as a returned value.
Self == Data("self", AbsentErrors)

\* The except clause of _request: an aiohttp.ClientError raised inside the
\* try block becomes GhostConnectionError, anything else passes unchanged.
ExceptClause(o) ==
    IF o.kind = "raise" /\ IsClientError(o.exc) THEN GhostConnectionError(o.exc) ELSE o

\* The 422 branch of _request: data.get("errors", [{}]), errors[0],
\* .get("message", "Validation failed").
ValidationBranch(body) ==
    LET j == ResponseJson(body)
    IN  IF j.err # "-" THEN Raise(j.err, "-")
        ELSE IF j.data.t # "dict" THEN Raise("AttributeError", "-")
        ELSE LET errors == IF j.data.errors.t = "absent"
                           THEN Errors("list", <<Item("dict", "absent")>>)
                           ELSE j.data.errors
             IN  IF errors.t = "null" THEN Raise("TypeError", "-")
                 ELSE IF errors.t = "dict" THEN Raise("KeyError", "-")
                 ELSE IF errors.items = <<>> THEN Raise("IndexError", "-")
                 ELSE IF errors.items[1].t # "dict" THEN Raise("AttributeError", "-")
                 ELSE IF errors.items[1].message = "absent"
                      THEN GhostValidationError("Validation failed")
                      ELSE GhostValidationError(errors.items[1].message)

\* The body of the try block of _request: the HTTP call and the
\* classification of its response, first match wins.
TryBlock(endpoint, net) ==
    IF net.transport # "-" THEN Raise(net.transport, "-")
    ELSE IF net.status = 401 THEN GhostAuthError("Authentication failed. Check your API key.")
    ELSE IF net.status = 404 THEN GhostNotFoundError(endpoint)
    ELSE IF net.status = 422 THEN ValidationBranch(net.body)
    ELSE IF net.status >= 400
         THEN LET t == ResponseText(net.body)
              IN  IF t.err # "-" THEN Raise(t.err, "-") ELSE GhostError(net.status, t.text)
    ELSE LET j == ResponseJson(net.body)
         IN  IF j.err # "-" THEN Raise(j.err, "-") ELSE Return(j.data)

\* ==== sessions ============================================================

SessionIds == 1..MaxSessions

NoSessionObject == [by |-> "-", closed |-> FALSE, closedBy |-> "-"]
NewSession(by) == [by |-> by, closed |-> FALSE, closedBy |-> "-"]

\* The condition of _get_session under which a session is created.
NeedsSession == session = None \/ sessions[session].closed

FreeIds == {i \in SessionIds : sessions[i].by = "-"}
FreshId == CHOOSE i \in FreeIds : \A j \in FreeIds : i <= j

\* The model has an identifier left for the session _get_session may create.
CanGetSession == NeedsSession => FreeIds # {}

\* _get_session creating a session on every acquisition.
GetSession_always ==
    IF FreeIds # {}
    THEN [session |-> FreshId, owns_session |-> TRUE,
          sessions |-> [sessions EXCEPT ![FreshId] = NewSession("client")]]
    ELSE [session |-> session, owns_session |-> owns_session, sessions |-> sessions]

\* GhostAdminAPI._get_session: the fields of the client and the session
\* objects after the call; .session is the session returned.
GetSession ==
    IF NeedsSession
    THEN [session |-> FreshId, owns_session |-> TRUE,
          sessions |-> [sessions EXCEPT ![FreshId] = NewSession("client")]]
    ELSE [session |-> session, owns_session |-> owns_session, sessions |-> sessions]

\* close() without the ownership test.
CloseSessions_unowned ==
    IF session # None /\ ~sessions[session].closed
    THEN [sessions EXCEPT ![session].closed = TRUE, ![session].closedBy = "client"]
    ELSE sessions

\* GhostAdminAPI.close: the session objects after the call.
CloseSessions ==
    IF owns_session /\ session # None /\ ~sessions[session].closed
    THEN [sessions EXCEPT ![session].closed = TRUE, ![session].closedBy = "client"]
    ELSE sessions

\* ==== the record of the last call =========================================

NoTok == [ok |-> FALSE, exc |-> "-", msg |-> "-", token |-> NoToken]

Call(op, method, endpoint, path, net, res, tok, calls, used) ==
    [op |-> op, method |-> method, endpoint |-> endpoint, path |-> path, net |-> net,
     res |-> res, tok |-> tok, calls |-> calls, used |-> used]

NoCall == Call("-", "-", "-", "-", NoNet, NoOutcome, NoTok, 0, None)

Methods == {"GET", "DELETE"}
Endpoints == {"/ghost/api/admin/site/", "/ghost/api/admin/posts/1/"}

\* Credentials the client is given in the life-cycle specification.
SampleKeys ==
    { <<"z", ":", "a", "a">>,      \* well-formed
      <<"a", ":", "a", "a">>,      \* well-formed, another identifier
      <<"z", "a">>,                \* no colon
      <<"z", ":", "z">> }          \* secret not hexadecimal

\* The base URL of the client where the URL is not what is looked at.
SampleUrl == <<"https:", "/", "/", "x">>

\* No constructor or resource-method call is being followed.
NoMCall == [op |-> "-"]

\* ==== actions ============================================================

\* _request building the headers before it acquires the session.
RequestCore_headersfirst(method, endpoint, net) ==
    /\ CanGetSession
    /\ LET s == GetSession
           h == GetAuthHeaders
       IN  /\ session' = IF h.ok THEN s.session ELSE session
           /\ owns_session' = IF h.ok THEN s.owns_session ELSE owns_session
           /\ sessions' = IF h.ok THEN s.sessions ELSE sessions
           /\ last' = IF ~h.ok
                      THEN Call("_request", method, endpoint, "-", NoNet,
                                Raise(h.exc, h.msg), h, 0, None)
                      ELSE Call("_request", method, endpoint, "-", net,
                                ExceptClause(TryBlock(endpoint, net)), h, 1, s.session)
    /\ UNCHANGED <<admin_api_key, now, scope>>

\* GhostAdminAPI._request(method, endpoint), the network answering net: what it
\* does to the client, the sessions and the record of the last call.
RequestCore(method, endpoint, net) ==
    /\ CanGetSession
    /\ LET s == GetSession
           h == GetAuthHeaders
       IN  /\ session' = s.session
           /\ owns_session' = s.owns_session
           /\ sessions' = s.sessions
           /\ last' = IF ~h.ok
                      THEN Call("_request", method, endpoint, "-", NoNet,
                                Raise(h.exc, h.msg), h, 0, None)
                      ELSE Call("_request", method, endpoint, "-", net,
                                ExceptClause(TryBlock(endpoint, net)), h, 1, s.session)
    /\ UNCHANGED <<admin_api_key, now, scope>>

\* A call of _request on its own.
Request(method, endpoint, net) ==
    /\ RequestCore(method, endpoint, net)
    /\ UNCHANGED others

\* await api.close()
Close ==
    /\ sessions' = CloseSessions
    /\ last' = Call("close", "-", "-", "-", NoNet, Return(PyNone), NoTok, 0, None)
    /\ UNCHANGED <<admin_api_key, session, owns_session, now, scope>>
    /\ UNCHANGED others

\* __aenter__: "async with api" is entered.
AEnter ==
    /\ scope = "outside"
    /\ scope' = "inside"
    /\ last' = Call("__aenter__", "-", "-", "-", NoNet, Return(Self), NoTok, 0, None)
    /\ UNCHANGED <<admin_api_key, session, owns_session, sessions, now>>
    /\ UNCHANGED others

\* __aexit__ that closes only when the block ended normally.
AExitSessions_normal(path) == IF path = "normal" THEN CloseSessions ELSE sessions

\* __aexit__(*args): the session objects after the call; path tells whether
\* the block ended normally or by an exception.
AExitSessions(path) == CloseSessions

\* The "async with api" block is left, normally or by an exception.
AExit(path) ==
    /\ scope = "inside"
    /\ scope' = "outside"
    /\ sessions' = AExitSessions(path)
    /\ last' = Call("__aexit__", "-", "-", path, NoNet, Return(PyNone), NoTok, 0, None)
    /\ UNCHANGED <<admin_api_key, session, owns_session, now>>
    /\ UNCHANGED others

\* The caller closes the session it supplied to the constructor.
CallerClose ==
    /\ \E i \in SessionIds :
          /\ sessions[i].by = "caller"
          /\ ~sessions[i].closed
          /\ sessions' = [sessions EXCEPT ![i].closed = TRUE, ![i].closedBy = "caller"]
    /\ last' = Call("session.close", "-", "-", "-", NoNet, Return(PyNone), NoTok, 0, None)
    /\ UNCHANGED <<admin_api_key, session, owns_session, now, scope>>
    /\ UNCHANGED others

\* api.admin_api_key = key
SetKey(key) ==
    /\ key # admin_api_key
    /\ admin_api_key' = key
    /\ UNCHANGED <<session, owns_session, sessions, now, scope, last>>
    /\ UNCHANGED others

\* The wall clock advances.
Tick ==
    /\ now < MaxNow
    /\ now' = now + 1
    /\ UNCHANGED <<admin_api_key, session, owns_session, sessions, scope, last>>
    /\ UNCHANGED others

\* GhostAdminAPI(api_url, admin_api_key, session): the client after
\* construction, session being None or the caller's session.
Init ==
    /\ admin_api_key \in SampleKeys
    /\ \E borrowed \in BOOLEAN :
          /\ session = IF borrowed THEN 1 ELSE None
          /\ owns_session = ~borrowed
          /\ sessions = [i \in SessionIds |->
                           IF borrowed /\ i = 1 THEN NewSession("caller") ELSE NoSessionObject]
    /\ now = 0
    /\ scope = "outside"
    /\ last = NoCall
    /\ api_url = SampleUrl
    /\ constructed = TRUE
    /\ mcall = NoMCall

Next ==
    \/ \E m \in Methods, e \in Endpoints, net \in LifecycleNets : Request(m, e, net)
    \/ Close
    \/ AEnter
    \/ \E path \in {"normal", "exception"} : AExit(path)
    \/ CallerClose
    \/ \E key \in SampleKeys : SetKey(key)
    \/ Tick

Spec == Init /\ [][Next]_vars

\* ---- the request primitive alone, over every answer of the network ------

NextRequest ==
    \/ \E m \in Methods, e \in Endpoints, net \in NetOutcomes : Request(m, e, net)
    \/ \E key \in SampleKeys : SetKey(key)

SpecRequest == Init /\ [][NextRequest]_vars

\* ---- token generation alone, over every credential up to MaxKeyLen ------

\* api._generate_token()
CallGenerateToken ==
    /\ LET r == GenerateToken(admin_api_key, now)
       IN  last' = Call("_generate_token", "-", "-", "-", NoNet,
                        IF r.ok THEN Return(PyNone) ELSE Raise(r.exc, r.msg), r, 0, None)
    /\ UNCHANGED <<admin_api_key, session, owns_session, sessions, now, scope>>
    /\ UNCHANGED others

InitToken ==
    /\ admin_api_key \in AllKeys
    /\ now \in 0..MaxNow
    /\ session = None
    /\ owns_session = TRUE
    /\ sessions = [i \in SessionIds |-> NoSessionObject]
    /\ scope = "outside"
    /\ last = NoCall
    /\ api_url = SampleUrl
    /\ constructed = TRUE
    /\ mcall = NoMCall

NextToken == CallGenerateToken \/ Tick

SpecToken == InitToken /\ [][NextToken]_vars

\* ==== properties =========================================================

Taxonomy == {"GhostAuthError", "GhostNotFoundError", "GhostValidationError",
             "GhostConnectionError", "GhostError"}

\* The last call is a _request that received a response with a status.
GotStatus == last.op = "_request" /\ last.calls = 1 /\ last.net.transport = "-"

\* C1: a response to _request is classified by its status alone, first match
\* wins: 401 raises GhostAuthError, 404 GhostNotFoundError naming the
\* endpoint, 422 GhostValidationError, any other status >= 400 GhostError
\* with the status and the body text, and a status below 400 returns the
\* decoded JSON body.
C1_StatusClassification ==
    GotStatus =>
        LET st == last.net.status
            r == last.res
        IN  IF st = 401 THEN r.kind = "raise" /\ r.exc = "GhostAuthError"
            ELSE IF st = 404
                 THEN r.kind = "raise" /\ r.exc = "GhostNotFoundError" /\ r.endpoint = last.endpoint
            ELSE IF st = 422 THEN r.kind = "raise" /\ r.exc = "GhostValidationError"
            ELSE IF st >= 400
                 THEN r.kind = "raise" /\ r.exc = "GhostError" /\ r.status = st
                      /\ r.text = last.net.body
            ELSE r.kind = "return" /\ r.value = last.net.body.data

\* The message a 422 body reports first, "absent" when it reports none.
FirstMessage(body) ==
    IF body.ctype = "application/json" /\ body.raw = "json" /\ body.data.t = "dict"
       /\ body.data.errors.t = "list" /\ body.data.errors.items # <<>>
       /\ body.data.errors.items[1].t = "dict"
    THEN body.data.errors.items[1].message
    ELSE "absent"

\* C2: every 422 raises GhostValidationError, with errors[0].message of the
\* body when present and "Validation failed" when it is absent or malformed.
C2_ValidationMessage ==
    (GotStatus /\ last.net.status = 422) =>
        /\ last.res.kind = "raise"
        /\ last.res.exc = "GhostValidationError"
        /\ last.res.msg = IF FirstMessage(last.net.body) = "absent"
                          THEN "Validation failed"
                          ELSE FirstMessage(last.net.body)

\* C3: a transport failure of the HTTP call is raised as GhostConnectionError
\* wrapping the cause, never as the transport exception itself.
C3_TransportWrapped ==
    (last.op = "_request" /\ last.calls = 1 /\ last.net.transport # "-") =>
        /\ last.res.kind = "raise"
        /\ last.res.exc = "GhostConnectionError"
        /\ last.res.cause = last.net.transport

\* C4: an invocation of _request issues at most one HTTP call, and whatever
\* it raises is one of the five kinds of the taxonomy.
C4_NoRetryTaxonomyOnly ==
    last.op = "_request" =>
        /\ last.calls <= 1
        /\ last.res.kind = "raise" => last.res.exc \in Taxonomy

ClientSessions == {i \in SessionIds : sessions[i].by = "client"}
CallerSessions == {i \in SessionIds : sessions[i].by = "caller"}

\* C5: the client closes only sessions it created: close() leaves every
\* session of the caller as it was, and after close() a session the client
\* owns is closed.
C5_ClosesOnlyOwn ==
    /\ [](\A i \in SessionIds : sessions[i].closedBy = "client" => i \in ClientSessions)
    /\ []((last.op \in {"close", "__aexit__"} /\ session \in ClientSessions)
             => sessions[session].closed)
    /\ [][last'.op \in {"close", "__aexit__", "_request"}
             => \A i \in CallerSessions : sessions'[i] = sessions[i]]_vars

\* Reached: close() has closed the client's session next to a caller's session.
C5_Witness ==
    /\ last.op = "close"
    /\ CallerSessions # {}
    /\ \E i \in ClientSessions : sessions[i].closedBy = "client"

\* C6: at most one session created by the client is open; a request keeps an
\* open held session, and otherwise creates a fresh one and uses it.
C6_OneOwnedSession ==
    /\ [](Cardinality({i \in ClientSessions : ~sessions[i].closed}) <= 1)
    /\ [](last.op = "_request"
             => /\ session # None
                /\ ~sessions[session].closed
                /\ last.calls = 1 => last.used = session)
    /\ [][last'.op = "_request"
             => IF session # None /\ ~sessions[session].closed
                THEN session' = session /\ sessions' = sessions
                ELSE last' # last => /\ session' \in ClientSessions' \ ClientSessions
                                     /\ owns_session']_vars

\* Reached: a request made after the owned session was closed uses a new one.
C6_Witness ==
    /\ last.op = "_request"
    /\ last.calls = 1
    /\ last.used = session
    /\ \E i \in ClientSessions : i # session /\ sessions[i].closedBy = "client"

\* C7: entering the scope returns the client and changes nothing of it;
\* leaving it, normally or by an exception, leaves no session of the client
\* open.
C7_ScopeCloses ==
    /\ [](last.op = "__aexit__" => \A i \in ClientSessions : sessions[i].closed)
    /\ [][(scope = "outside" /\ scope' = "inside")
             => /\ last'.res = Return(Self)
                /\ UNCHANGED <<admin_api_key, session, owns_session, sessions>>]_vars

\* Reached: the scope was left by an exception and the owned session closed.
C7_Witness ==
    /\ last.op = "__aexit__"
    /\ last.path = "exception"
    /\ session \in ClientSessions
    /\ sessions[session].closedBy = "client"

\* ---- credentials, as the specification describes them -------------------

ColonCount(key) == Cardinality({i \in 1..Len(key) : key[i] = ":"})
ColonAt(key) == CHOOSE i \in 1..Len(key) : key[i] = ":"
IdOf(key) == SubSeq(key, 1, ColonAt(key) - 1)
SecretOf(key) == SubSeq(key, ColonAt(key) + 1, Len(key))

\* A secret that no reading takes for hexadecimal: a character that is
\* neither a digit nor white space, or an odd number of digits.
NotHexadecimal(secret) ==
    \/ \E i \in 1..Len(secret) : ~IsHexDigit(secret[i]) /\ ~IsSpace(secret[i])
    \/ Cardinality({i \in 1..Len(secret) : IsHexDigit(secret[i])}) % 2 = 1

\* Exactly one colon, and a secret made of pairs of hexadecimal digits.
WellFormed(key) ==
    /\ ColonCount(key) = 1
    /\ Len(SecretOf(key)) % 2 = 0
    /\ \A i \in 1..Len(SecretOf(key)) : IsHexDigit(SecretOf(key)[i])

\* C8: a credential without exactly one colon, or whose secret is not
\* hexadecimal, makes token generation raise GhostAuthError, and token
\* generation raises nothing else.
C8_MalformedKeyAuthError ==
    last.op = "_generate_token" =>
        /\ ColonCount(admin_api_key) # 1
              => last.res.kind = "raise" /\ last.res.exc = "GhostAuthError"
        /\ (ColonCount(admin_api_key) = 1 /\ NotHexadecimal(SecretOf(admin_api_key)))
              => last.res.kind = "raise" /\ last.res.exc = "GhostAuthError"
        /\ last.res.kind = "raise" => last.res.exc = "GhostAuthError"

\* Reached: token generation on a credential with two colons.
C8_Witness ==
    /\ last.op = "_generate_token"
    /\ ColonCount(admin_api_key) = 2
    /\ last.res.exc = "GhostAuthError"

\* C9: the token of a well-formed credential has alg HS256, typ JWT, the
\* credential's identifier as kid, aud "/admin/" and exp - iat = 300.
C9_TokenContents ==
    (last.op = "_generate_token" /\ WellFormed(admin_api_key)) =>
        /\ last.res.kind = "return"
        /\ last.tok.ok
        /\ last.tok.token.header.alg = "HS256"
        /\ last.tok.token.header.typ = "JWT"
        /\ last.tok.token.header.kid = IdOf(admin_api_key)
        /\ last.tok.token.payload.aud = "/admin/"
        /\ last.tok.token.payload.exp - last.tok.token.payload.iat = 300

\* Reached: a token generated for a well-formed credential, not at time 0.
C9_Witness ==
    /\ last.op = "_generate_token"
    /\ WellFormed(admin_api_key)
    /\ IdOf(admin_api_key) # <<>>
    /\ last.tok.ok
    /\ last.tok.token.payload.iat > 0

\* C10: each _request builds its token from the credential the client holds
\* and the time at that moment: a malformed credential fails that request
\* before any HTTP call, a well-formed one yields a token with its
\* identifier and the current time, whatever earlier requests did.
C10_TokenPerRequest ==
    [][(last'.op = "_request" /\ last' # last)
          => /\ WellFormed(admin_api_key)
                => /\ last'.tok.ok
                   /\ last'.calls = 1
                   /\ last'.tok.token.header.kid = IdOf(admin_api_key)
                   /\ last'.tok.token.payload.iat = now \div TicksPerSecond
             /\ (ColonCount(admin_api_key) # 1 \/ NotHexadecimal(SecretOf(admin_api_key)))
                => /\ ~last'.tok.ok
                   /\ last'.calls = 0
                   /\ last'.res.kind = "raise"
                   /\ last'.res.exc = "GhostAuthError"]_vars

\* Reached: a request that failed on a malformed credential after the client
\* had already made a session and time had passed.
C10_Witness ==
    /\ last.op = "_request"
    /\ ~last.tok.ok
    /\ last.res.exc = "GhostAuthError"
    /\ now > 0
    /\ \E i \in ClientSessions : sessions[i].closed

\* ==== construction =======================================================

\* Base URLs are sequences over UrlAlphabet: "https:" and "http:" stand for
\* the characters of the scheme and its colon, "x" for a character of a host
\* or a path.
UrlAlphabet == {"https:", "http:", "/", "x"}

RECURSIVE UrlsUpTo(_)
UrlsUpTo(n) ==
    IF n = 0 THEN {<<>>}
    ELSE LET shorter == UrlsUpTo(n - 1)
         IN  shorter \cup {Append(u, c) : u \in {t \in shorter : Len(t) = n - 1}, c \in UrlAlphabet}

AllUrls == UrlsUpTo(MaxUrlLen)

\* api_url.startswith("https://")
StartsWithHttps(url) ==
    Len(url) >= 3 /\ url[1] = "https:" /\ url[2] = "/" /\ url[3] = "/"

\* api_url.rstrip("/")
RECURSIVE RStrip(_)
RStrip(url) ==
    IF url # <<>> /\ url[Len(url)] = "/" THEN RStrip(SubSeq(url, 1, Len(url) - 1)) ELSE url

\* __init__ without the scheme check.
Constructor_unchecked(url, key, sess) ==
    [ok |-> TRUE, api_url |-> RStrip(url), admin_api_key |-> key,
     session |-> sess, owns_session |-> sess = None]

\* GhostAdminAPI.__init__(api_url, admin_api_key, session): ValueError, or
\* the fields of the new client.
Constructor(url, key, sess) ==
    IF ~StartsWithHttps(url)
    THEN [ok |-> FALSE, api_url |-> <<>>, admin_api_key |-> <<>>,
          session |-> None, owns_session |-> FALSE]
    ELSE [ok |-> TRUE, api_url |-> RStrip(url), admin_api_key |-> key,
          session |-> sess, owns_session |-> sess = None]

\* The call GhostAdminAPI(url, key, sess); src tells where url comes from.
InitCall(op, src, url, key, sess, res) ==
    [op |-> op, src |-> src, url |-> url, key |-> key, session |-> sess, res |-> res]

\* GhostAdminAPI(url, key, sess) is evaluated: a client comes to exist, or
\* ValueError is raised and the variables keep what they held.
ConstructFrom(src, url, key, sess) ==
    LET c == Constructor(url, key, sess)
    IN  /\ mcall' = InitCall("__init__", src, url, key, sess,
                             IF c.ok THEN Return(Self)
                             ELSE Raise("ValueError", "api_url must use HTTPS"))
        /\ IF c.ok
           THEN /\ constructed' = TRUE
                /\ api_url' = c.api_url
                /\ admin_api_key' = c.admin_api_key
                /\ session' = c.session
                /\ owns_session' = c.owns_session
           ELSE UNCHANGED <<constructed, api_url, admin_api_key, session, owns_session>>
        /\ UNCHANGED <<sessions, now, scope, last>>

\* The first construction, from the arguments the caller chose.
Construct ==
    /\ mcall.op = "-"
    /\ ConstructFrom("args", mcall.url, mcall.key, mcall.session)

\* Another client is constructed from the URL the client stores.
Reconstruct ==
    /\ constructed
    /\ ConstructFrom("stored", api_url, admin_api_key, session)

\* Before any construction: no client, the caller holds an open session.
InitConstruct ==
    /\ constructed = FALSE
    /\ api_url = <<>>
    /\ admin_api_key = <<>>
    /\ session = None
    /\ owns_session = FALSE
    /\ sessions = [i \in SessionIds |-> IF i = 1 THEN NewSession("caller") ELSE NoSessionObject]
    /\ now = 0
    /\ scope = "outside"
    /\ last = NoCall
    /\ \E url \in AllUrls, key \in {<<"z", ":", "a", "a">>, <<"z", "a">>}, sess \in {None, 1} :
          mcall = InitCall("-", "args", url, key, sess, NoOutcome)

NextConstruct == Construct \/ Reconstruct

SpecConstruct == InitConstruct /\ [][NextConstruct]_vars

\* The URL begins with the secure scheme.
SecureScheme(url) == Len(url) >= 3 /\ SubSeq(url, 1, 3) = <<"https:", "/", "/">>

\* C11: construction with a URL that is not https raises ValueError and
\* leaves no client; construction, failed or not, creates no session and
\* issues no HTTP call.
C11_InsecureUrlRejected ==
    (mcall.op = "__init__" /\ mcall.src = "args") =>
        /\ ~SecureScheme(mcall.url)
              => /\ mcall.res.kind = "raise"
                 /\ mcall.res.exc = "ValueError"
                 /\ ~constructed
        /\ SecureScheme(mcall.url) => constructed /\ mcall.res.kind = "return"
        /\ \A i \in SessionIds : sessions[i].by # "client"
        /\ last = NoCall

\* Reached: construction with an http URL has failed.
C11_Witness ==
    /\ mcall.op = "__init__"
    /\ mcall.src = "args"
    /\ Len(mcall.url) >= 3
    /\ mcall.url[1] = "http:"
    /\ mcall.res.exc = "ValueError"
    /\ ~constructed

\* C12: the stored URL does not end with "/", it is the input without its
\* trailing slashes, and a client constructed from the stored URL stores the
\* same URL.
C12_StripIdempotent ==
    /\ (mcall.op = "__init__" /\ mcall.res.kind = "return")
          => /\ api_url = <<>> \/ api_url[Len(api_url)] # "/"
             /\ \E n \in 0..Len(mcall.url) :
                   /\ api_url = SubSeq(mcall.url, 1, n)
                   /\ \A i \in (n + 1)..Len(mcall.url) : mcall.url[i] = "/"
    /\ (mcall.op = "__init__" /\ mcall.src = "stored")
          => /\ mcall.res.kind = "return"
             /\ api_url = mcall.url

\* ==== reshaping of decoded responses ======================================

\* A key of a JSON object: present with a value, or absent.
Present(v) == [p |-> TRUE, v |-> v]
Absent == [p |-> FALSE, v |-> 0]
AbsentList == [p |-> FALSE, v |-> <<>>]
AbsentName == [p |-> FALSE, v |-> "-"]

\* dict.get(key, default)
DictGet(field, default) == IF field.p THEN field.v ELSE default

\* The numbers the responses carry, and a key holding one of them or absent.
Amounts == {1, 2}
AmountFields == {Absent} \cup {Present(n) : n \in Amounts}

RECURSIVE ListsUpTo(_, _)
ListsUpTo(S, n) ==
    IF n = 0 THEN {<<>>}
    ELSE LET shorter == ListsUpTo(S, n - 1)
         IN  shorter \cup {Append(l, x) : l \in {t \in shorter : Len(t) = n - 1}, x \in S}

\* ---- get_mrr -------------------------------------------------------------

Currencies == {"usd", "eur"}

\* {"currency": ..., "data": [{"value": ...}, ...]}
MrrEntries ==
    { [currency |-> c, data |-> d] :
        c \in {AbsentName} \cup {Present(x) : x \in Currencies},
        d \in {AbsentList} \cup {Present(l) : l \in ListsUpTo({[value |-> a] : a \in AmountFields},
                                                               MaxSeries)} }

\* The responses of the MRR endpoint: at most one entry for each currency.
MrrPayloads ==
    { [data |-> d] :
        d \in {AbsentList}
              \cup {Present(<<>>)}
              \cup {Present(<<x>>) : x \in MrrEntries}
              \cup {Present(<<q[1], q[2]>>) :
                       q \in {r \in MrrEntries \X MrrEntries :
                                DictGet(r[1].currency, "usd") # DictGet(r[2].currency, "usd")}} }

\* result[currency] = value
DictSet(result, key, value) == {q \in result : q[1] # key} \cup {<<key, value>>}

\* The loop of get_mrr taking the first element of each series.
RECURSIVE MrrLoop_first(_, _)
MrrLoop_first(entries, result) ==
    IF entries = <<>> THEN result
    ELSE LET currency_data == Head(entries)
             currency == DictGet(currency_data.currency, "usd")
             values == DictGet(currency_data.data, <<>>)
         IN  MrrLoop_first(Tail(entries),
                           IF values # <<>>
                           THEN DictSet(result, currency, DictGet(values[1].value, 0))
                           ELSE result)

\* The loop of get_mrr over data.get("data", []): result after the entries.
RECURSIVE MrrLoop(_, _)
MrrLoop(entries, result) ==
    IF entries = <<>> THEN result
    ELSE LET currency_data == Head(entries)
             currency == DictGet(currency_data.currency, "usd")
             values == DictGet(currency_data.data, <<>>)
         IN  MrrLoop(Tail(entries),
                     IF values # <<>>
                     THEN DictSet(result, currency, DictGet(values[Len(values)].value, 0))
                     ELSE result)

\* get_mrr on the decoded response data: the dict returned, as its items.
GetMrrResult(data) == MrrLoop(DictGet(data.data, <<>>), {})

\* ---- get_members_count ---------------------------------------------------

\* {"paid": ..., "free": ..., "comped": ...}
HistoryEntries ==
    { [paid |-> a, free |-> b, comped |-> c] :
        a \in AmountFields, b \in AmountFields, c \in AmountFields }

\* The responses of the member count endpoint.
MemberPayloads ==
    { [total |-> t, data |-> d] :
        t \in AmountFields,
        d \in {AbsentList} \cup {Present(l) : l \in ListsUpTo(HistoryEntries, MaxSeries)} }

\* get_members_count reading the first element of the history.
GetMembersCountResult_first(data) ==
    LET total == DictGet(data.total, 0)
        history == DictGet(data.data, <<>>)
    IN  IF history # <<>>
        THEN [total |-> total,
              paid |-> DictGet(history[1].paid, 0),
              free |-> DictGet(history[1].free, 0),
              comped |-> DictGet(history[1].comped, 0)]
        ELSE [total |-> total, paid |-> 0, free |-> 0, comped |-> 0]

\* get_members_count on the decoded response data.
GetMembersCountResult(data) ==
    LET total == DictGet(data.total, 0)
        history == DictGet(data.data, <<>>)
    IN  IF history # <<>>
        THEN LET latest == history[Len(history)]
             IN  [total |-> total,
                  paid |-> DictGet(latest.paid, 0),
                  free |-> DictGet(latest.free, 0),
                  comped |-> DictGet(latest.comped, 0)]
        ELSE [total |-> total, paid |-> 0, free |-> 0, comped |-> 0]

\* ---- the two functions applied to every response -------------------------

ShapeCall(op, method, payload, res) ==
    [op |-> op, method |-> method, payload |-> payload, res |-> res]

\* get_mrr() has received its response and returns.
GetMrr ==
    /\ mcall.op = "-"
    /\ mcall.method = "get_mrr"
    /\ mcall' = ShapeCall("get_mrr", "get_mrr", mcall.payload, GetMrrResult(mcall.payload))
    /\ UNCHANGED <<admin_api_key, session, owns_session, sessions, now, scope, last,
                   api_url, constructed>>

\* get_members_count() has received its response and returns.
GetMembersCount ==
    /\ mcall.op = "-"
    /\ mcall.method = "get_members_count"
    /\ mcall' = ShapeCall("get_members_count", "get_members_count", mcall.payload,
                          GetMembersCountResult(mcall.payload))
    /\ UNCHANGED <<admin_api_key, session, owns_session, sessions, now, scope, last,
                   api_url, constructed>>

InitShape ==
    /\ admin_api_key = <<"z", ":", "a", "a">>
    /\ session = None
    /\ owns_session = TRUE
    /\ sessions = [i \in SessionIds |-> NoSessionObject]
    /\ now = 0
    /\ scope = "outside"
    /\ last = NoCall
    /\ api_url = SampleUrl
    /\ constructed = TRUE
    /\ \/ \E p \in MrrPayloads : mcall = ShapeCall("-", "get_mrr", p, {})
       \/ \E p \in MemberPayloads :
             mcall = ShapeCall("-", "get_members_count", p,
                               [total |-> 0, paid |-> 0, free |-> 0, comped |-> 0])

NextShape == GetMrr \/ GetMembersCount

SpecShape == InitShape /\ [][NextShape]_vars

\* The entries of an MRR response.
EntriesOf(payload) == IF payload.data.p THEN payload.data.v ELSE <<>>

\* The series of an entry, empty when the entry has none.
SeriesOf(entry) == IF entry.data.p THEN entry.data.v ELSE <<>>

\* C19: get_mrr returns for each currency entry the value of the last
\* element of its series; a currency with an empty series is not in the
\* result; an empty response gives an empty result.
C19_MrrLastValue ==
    mcall.op = "get_mrr" =>
        LET entries == EntriesOf(mcall.payload)
        IN  /\ \A i \in 1..Len(entries) :
                  LET series == SeriesOf(entries[i])
                      currency == IF entries[i].currency.p THEN entries[i].currency.v ELSE "usd"
                  IN  IF series = <<>>
                      THEN \A q \in mcall.res : q[1] # currency
                      ELSE \E q \in mcall.res :
                              /\ q[1] = currency
                              /\ series[Len(series)].value.p => q[2] = series[Len(series)].value.v
            /\ \A q \in mcall.res : \E i \in 1..Len(entries) :
                  entries[i].currency.p => q[1] = entries[i].currency.v
            /\ Cardinality(mcall.res) = Cardinality({i \in 1..Len(entries) : SeriesOf(entries[i]) # <<>>})

\* Reached: two currencies, one with an empty series, one whose last value
\* differs from its first.
C19_Witness ==
    /\ mcall.op = "get_mrr"
    /\ Len(EntriesOf(mcall.payload)) = 2
    /\ SeriesOf(EntriesOf(mcall.payload)[1]) = <<>>
    /\ Len(SeriesOf(EntriesOf(mcall.payload)[2])) = 2
    /\ mcall.res = {<<"eur", 2>>}
    /\ SeriesOf(EntriesOf(mcall.payload)[2])[1].value = Present(1)

\* C20: get_members_count returns the response's total, and paid, free and
\* comped of the last element of the history (0 where that element lacks
\* one); with an empty or absent history the three are 0.
C20_MembersLastEntry ==
    mcall.op = "get_members_count" =>
        LET history == IF mcall.payload.data.p THEN mcall.payload.data.v ELSE <<>>
            r == mcall.res
        IN  /\ mcall.payload.total.p => r.total = mcall.payload.total.v
            /\ IF history = <<>>
               THEN r.paid = 0 /\ r.free = 0 /\ r.comped = 0
               ELSE LET e == history[Len(history)]
                    IN  /\ r.paid = (IF e.paid.p THEN e.paid.v ELSE 0)
                        /\ r.free = (IF e.free.p THEN e.free.v ELSE 0)
                        /\ r.comped = (IF e.comped.p THEN e.comped.v ELSE 0)

\* Reached: a history of two elements that differ, the last lacking a count.
C20_Witness ==
    /\ mcall.op = "get_members_count"
    /\ mcall.payload.data.p
    /\ Len(mcall.payload.data.v) = 2
    /\ mcall.payload.data.v[1].paid = Present(1)
    /\ mcall.payload.data.v[2].paid = Present(2)
    /\ ~mcall.payload.data.v[2].comped.p
    /\ mcall.res.paid = 2
    /\ mcall.res.comped = 0

\* ==== resource methods ===================================================

\* The exception classes of aioghost.exceptions: every kind derives from
\* GhostError and from nothing else of the package.
Subclasses(cls) ==
    IF cls = "GhostError"
    THEN {"GhostError", "GhostAuthError", "GhostConnectionError", "GhostNotFoundError",
          "GhostValidationError"}
    ELSE {cls}

\* except cls: whether the clause catches an exception of class exc.
IsInstance(exc, cls) == exc \in Subclasses(cls)

\* Values the resource methods return.
EmptyDict == Data("dict", AbsentErrors)
EmptyList == Data("list", AbsentErrors)
Resource == Data("resource", AbsentErrors)
ResourceList == Data("resources", AbsentErrors)
PyTrue == Data("True", AbsentErrors)
PyFalse == Data("False", AbsentErrors)
Shaped(items) == [t |-> "dict", items |-> items]

\* "meta": {"pagination": {"total": n}}, each level present or absent.
Pagination(total) == [total |-> total]
AbsentPagination == [p |-> FALSE, v |-> Pagination(Absent)]
Meta(pagination) == [pagination |-> pagination]
AbsentMeta == [p |-> FALSE, v |-> Meta(AbsentPagination)]
Metas ==
    {AbsentMeta, Present(Meta(AbsentPagination))}
    \cup {Present(Meta(Present(Pagination(t)))) : t \in AmountFields}

\* int(data.get("meta", {}).get("pagination", {}).get("total", 0))
PaginationTotal(meta) ==
    DictGet(DictGet(DictGet(meta, Meta(AbsentPagination)).pagination,
                    Pagination(Absent)).total, 0)

\* The answers of the network the resource methods are followed over.
MethodNets ==
    { [transport |-> e, status |-> 0, body |-> NoBody] :
        e \in {"ClientConnectorError", "TimeoutError"} }
    \cup { [transport |-> "-", status |-> 200, body |-> b] :
             b \in { Body("application/json", "json", Data("dict", AbsentErrors)),
                     Body("application/json", "json", Data("list", AbsentErrors)),
                     Body("application/json", "empty", NoData),
                     Body("application/json", "badjson", NoData),
                     Body("text/html", "text", NoData) } }
    \cup { [transport |-> "-", status |-> st,
            body |-> Body("application/json", "json", Data("dict", AbsentErrors))] :
             st \in {399, 401, 404, 500} }
    \cup { [transport |-> "-", status |-> 422, body |-> Body("application/json", "json", d)] :
             d \in { Data("dict", Errors("list", <<Item("dict", "Invalid target URL")>>)),
                     Data("dict", Errors("list", <<>>)) } }
    \cup { [transport |-> "-", status |-> 500,
            body |-> Body("application/json", "badcharset", NoData)] }

\* The answers the concurrent requests are followed over: a transport failure
\* inside and outside aiohttp.ClientError, a success with a JSON object, with
\* another JSON value and with an undecodable body, and an error status.
GatherNets ==
    { net \in MethodNets :
        \/ net.transport # "-"
        \/ net.status = 200 /\ net.body.raw \in {"json", "badjson"}
        \/ net.status = 404 }

\* The response is a success whose body decodes to a JSON object.
SuccessDict(net) ==
    /\ net.transport = "-"
    /\ net.status # 0
    /\ net.status < 400
    /\ ResponseJson(net.body).err = "-"
    /\ ResponseJson(net.body).data.t = "dict"

\* data = await self._get(...); data.get(key, default), then the element the
\* method picks: r is the outcome of the request primitive, found says the
\* key holds a non-empty value.
Pick(r, found, value, default) ==
    IF r.kind = "raise" THEN r
    ELSE IF r.value.t # "dict" THEN Raise("AttributeError", "-")
    ELSE Return(IF found THEN value ELSE default)

\* get_site returning {} for every error.
GetSite_sentinel(r, found) ==
    IF r.kind = "raise" THEN Return(EmptyDict) ELSE Pick(r, found, Resource, EmptyDict)

GetSite(r, found) == Pick(r, found, Resource, EmptyDict)
GetLatestPost(r, found) == Pick(r, found, Resource, PyNone)

GetPost(r, found) ==
    IF r.kind = "raise" /\ IsInstance(r.exc, "GhostNotFoundError") THEN Return(PyNone)
    ELSE Pick(r, found, Resource, PyNone)

CreatePost(r, found) == Pick(r, found, Resource, EmptyDict)

UpdatePost(r, found) ==
    IF r.kind = "raise" /\ IsInstance(r.exc, "GhostNotFoundError") THEN Return(PyNone)
    ELSE Pick(r, found, Resource, PyNone)

DeletePost(r, found) ==
    IF r.kind = "raise"
    THEN IF IsInstance(r.exc, "GhostNotFoundError") THEN Return(PyFalse) ELSE r
    ELSE Return(PyTrue)

SampleMembers ==
    [total |-> Present(2), data |-> Present(<<[paid |-> Present(1), free |-> Present(1),
                                              comped |-> Absent]>>)]
SampleMrr ==
    [data |-> Present(<<[currency |-> Present("usd"),
                         data |-> Present(<<[value |-> Present(2)]>>)]>>)]

GetMembersCountOf(r, found) ==
    Pick(r, found, Shaped(GetMembersCountResult(SampleMembers)),
         Shaped(GetMembersCountResult([total |-> Absent, data |-> AbsentList])))

GetMrrOf(r, found) ==
    Pick(r, found, Shaped(GetMrrResult(SampleMrr)), Shaped(GetMrrResult([data |-> AbsentList])))

GetNewsletters(r, found) == Pick(r, found, ResourceList, EmptyList)
GetLatestEmail(r, found) == Pick(r, found, Resource, PyNone)

GetCommentsCount(r, found) ==
    Pick(r, found, Shaped(PaginationTotal(Present(Meta(Present(Pagination(Present(2))))))),
         Shaped(PaginationTotal(AbsentMeta)))

GetTiers(r, found) == Pick(r, found, ResourceList, EmptyList)
CreateWebhook(r, found) == Pick(r, found, Resource, EmptyDict)
DeleteWebhook(r, found) == IF r.kind = "raise" THEN r ELSE Return(PyNone)

ValidateCredentials(r, found) ==
    LET site == GetSite(r, found)
    IN  IF site.kind = "return" THEN Return(PyTrue)
        ELSE IF IsInstance(site.exc, "GhostError") THEN Return(PyFalse)
        ELSE site

\* The resource methods that make one request.
SingleMethods ==
    {"get_site", "get_latest_post", "get_post", "create_post", "update_post", "delete_post",
     "get_members_count", "get_mrr", "get_newsletters", "get_latest_email",
     "get_comments_count", "get_tiers", "create_webhook", "delete_webhook",
     "validate_credentials"}

HttpMethod(name) ==
    CASE name \in {"create_post", "create_webhook"} -> "POST"
      [] name = "update_post" -> "PUT"
      [] name \in {"delete_post", "delete_webhook"} -> "DELETE"
      [] OTHER -> "GET"

PostsEndpoint == "/ghost/api/admin/posts/"

Endpoint(name) ==
    CASE name \in {"get_site", "validate_credentials"} -> "/ghost/api/admin/site/"
      [] name \in {"get_latest_post", "create_post", "get_latest_email"} -> PostsEndpoint
      [] name \in {"get_post", "update_post", "delete_post"} -> "/ghost/api/admin/posts/1/"
      [] name = "get_members_count" -> "/ghost/api/admin/members/stats/count/"
      [] name = "get_mrr" -> "/ghost/api/admin/members/stats/mrr/"
      [] name = "get_newsletters" -> "/ghost/api/admin/newsletters/"
      [] name = "get_comments_count" -> "/ghost/api/admin/comments/"
      [] name = "get_tiers" -> "/ghost/api/admin/tiers/"
      [] name = "create_webhook" -> "/ghost/api/admin/webhooks/"
      [] OTHER -> "/ghost/api/admin/webhooks/1/"

\* What the method makes of the outcome r of its request.
MethodResult(name, r, found) ==
    CASE name = "get_site" -> GetSite(r, found)
      [] name = "get_latest_post" -> GetLatestPost(r, found)
      [] name = "get_post" -> GetPost(r, found)
      [] name = "create_post" -> CreatePost(r, found)
      [] name = "update_post" -> UpdatePost(r, found)
      [] name = "delete_post" -> DeletePost(r, found)
      [] name = "get_members_count" -> GetMembersCountOf(r, found)
      [] name = "get_mrr" -> GetMrrOf(r, found)
      [] name = "get_newsletters" -> GetNewsletters(r, found)
      [] name = "get_latest_email" -> GetLatestEmail(r, found)
      [] name = "get_comments_count" -> GetCommentsCount(r, found)
      [] name = "get_tiers" -> GetTiers(r, found)
      [] name = "create_webhook" -> CreateWebhook(r, found)
      [] name = "delete_webhook" -> DeleteWebhook(r, found)
      [] OTHER -> ValidateCredentials(r, found)

\* ---- asyncio.gather ------------------------------------------------------

\* One awaitable handed to gather: its argument (the filter or the key), and
\* once it is done the answer it got and its outcome.
Task(pc, arg, net, extra, res) ==
    [pc |-> pc, arg |-> arg, net |-> net, extra |-> extra, res |-> res]

PostFilters == <<"status:published", "status:draft", "status:scheduled">>
FetchKeys == <<"followers", "following">>

NoStats == [followers |-> 0, following |-> 0]

\* The positions, in order of completion, of the tasks that raised.
Raised(tasks, order) == {k \in 1..Len(order) : tasks[order[k]].res.kind = "raise"}

Earliest(S) == CHOOSE k \in S : \A j \in S : k <= j

\* gather handing the results over in the order of completion.
AwaitGather_completion(tasks, order) ==
    IF Raised(tasks, order) # {}
    THEN [state |-> "raise", exc |-> tasks[order[Earliest(Raised(tasks, order))]].res,
          results |-> <<>>]
    ELSE IF Len(order) < Len(tasks)
    THEN [state |-> "pending", exc |-> NoOutcome, results |-> <<>>]
    ELSE [state |-> "done", exc |-> NoOutcome,
          results |-> [i \in 1..Len(tasks) |->
                         [data |-> tasks[order[i]].res.value, extra |-> tasks[order[i]].extra]]]

\* await asyncio.gather(...): raises the first exception a task raised,
\* otherwise waits for all and returns their results in argument order.
AwaitGather(tasks, order) ==
    IF Raised(tasks, order) # {}
    THEN [state |-> "raise", exc |-> tasks[order[Earliest(Raised(tasks, order))]].res,
          results |-> <<>>]
    ELSE IF Len(order) < Len(tasks)
    THEN [state |-> "pending", exc |-> NoOutcome, results |-> <<>>]
    ELSE [state |-> "done", exc |-> NoOutcome,
          results |-> [i \in 1..Len(tasks) |->
                         [data |-> tasks[i].res.value, extra |-> tasks[i].extra]]]

\* The count get_posts_count reads from one response.
CountOf(result) == PaginationTotal(result.extra)

\* get_posts_count counting a failed request as 0.
GetPostsCount_partial(tasks, order) ==
    IF Len(order) < Len(tasks) THEN NoOutcome
    ELSE LET count(i) == IF tasks[i].res.kind = "raise" \/ tasks[i].res.value.t # "dict"
                         THEN 0
                         ELSE PaginationTotal(tasks[i].extra)
         IN  Return(Shaped([published |-> count(1), drafts |-> count(2),
                            scheduled |-> count(3)]))

\* get_posts_count: the outcome of the call, NoOutcome while it is waiting.
GetPostsCount(tasks, order) ==
    LET g == AwaitGather(tasks, order)
    IN  IF g.state = "raise" THEN g.exc
        ELSE IF g.state = "pending" THEN NoOutcome
        ELSE IF \E i \in 1..Len(tasks) : g.results[i].data.t # "dict"
        THEN Raise("AttributeError", "-")
        ELSE Return(Shaped([published |-> CountOf(g.results[1]),
                            drafts |-> CountOf(g.results[2]),
                            scheduled |-> CountOf(g.results[3])]))

\* fetch_count catching aiohttp.ClientError only.
FetchCount_clienterror(net, totalItems) ==
    IF net.transport # "-"
    THEN [res |-> IF IsClientError(net.transport) THEN Return(PyNone)
                  ELSE Raise(net.transport, "-"),
          set |-> FALSE, count |-> 0]
    ELSE IF net.status < 400
    THEN LET j == ResponseJson(net.body)
         IN  IF j.err # "-"
             THEN [res |-> IF IsClientError(j.err) THEN Return(PyNone) ELSE Raise(j.err, "-"),
                   set |-> FALSE, count |-> 0]
             ELSE IF j.data.t # "dict"
             THEN [res |-> Raise("AttributeError", "-"), set |-> FALSE, count |-> 0]
             ELSE [res |-> Return(PyNone), set |-> TRUE, count |-> DictGet(totalItems, 0)]
    ELSE [res |-> Return(PyNone), set |-> FALSE, count |-> 0]

\* fetch_count of get_activitypub_stats: its outcome, and whether and to
\* what it sets stats[key]. Every Exception is caught.
FetchCount(net, totalItems) ==
    IF net.transport # "-"
    THEN [res |-> Return(PyNone), set |-> FALSE, count |-> 0]
    ELSE IF net.status < 400
    THEN LET j == ResponseJson(net.body)
         IN  IF j.err # "-"
             THEN [res |-> Return(PyNone), set |-> FALSE, count |-> 0]
             ELSE IF j.data.t # "dict"
             THEN [res |-> Return(PyNone), set |-> FALSE, count |-> 0]
             ELSE [res |-> Return(PyNone), set |-> TRUE, count |-> DictGet(totalItems, 0)]
    ELSE [res |-> Return(PyNone), set |-> FALSE, count |-> 0]

\* get_activitypub_stats: the outcome of the call, NoOutcome while waiting.
GetActivitypubStats(tasks, order, stats) ==
    LET g == AwaitGather(tasks, order)
    IN  IF g.state = "raise" THEN g.exc
        ELSE IF g.state = "pending" THEN NoOutcome
        ELSE Return(Shaped(stats))

\* ---- the calls of the resource methods -----------------------------------

MethodCall(op, phase, net, found, res, tasks, order, stats) ==
    [op |-> op, phase |-> phase, net |-> net, found |-> found, res |-> res,
     tasks |-> tasks, order |-> order, stats |-> stats]

NoMethodCall == MethodCall("-", "idle", NoNet, FALSE, NoOutcome, <<>>, <<>>, NoStats)

\* A resource method that makes one request, the network answering net.
Method(name, net, found) ==
    /\ mcall.phase = "idle"
    /\ found => (SuccessDict(net) /\ GetAuthHeaders.ok)
    /\ RequestCore(HttpMethod(name), Endpoint(name), net)
    /\ mcall' = MethodCall(name, "done", last'.net, found,
                           MethodResult(name, last'.res, found), <<>>, <<>>, NoStats)
    /\ UNCHANGED <<api_url, constructed>>

\* get_posts_count up to the point where its three requests are sent: each
\* task acquires the session and builds its headers before it first waits.
StartPostsCount ==
    /\ mcall.phase = "idle"
    /\ CanGetSession
    /\ LET s == GetSession
           h == GetAuthHeaders
           tasks == [i \in 1..3 |->
                       IF h.ok THEN Task("inflight", PostFilters[i], NoNet, AbsentMeta, NoOutcome)
                       ELSE Task("done", PostFilters[i], NoNet, AbsentMeta, Raise(h.exc, h.msg))]
           order == IF h.ok THEN <<>> ELSE <<1, 2, 3>>
       IN  /\ session' = s.session
           /\ owns_session' = s.owns_session
           /\ sessions' = s.sessions
           /\ mcall' = MethodCall("get_posts_count", IF h.ok THEN "running" ELSE "done",
                                  NoNet, FALSE, GetPostsCount(tasks, order), tasks, order,
                                  NoStats)
    /\ UNCHANGED <<admin_api_key, now, scope, last, api_url, constructed>>

\* The response to request i of get_posts_count arrives.
FinishRequest(i, net, meta) ==
    /\ mcall.op = "get_posts_count"
    /\ mcall.phase = "running"
    /\ mcall.tasks[i].pc = "inflight"
    /\ ~SuccessDict(net) => meta = AbsentMeta
    /\ LET res == ExceptClause(TryBlock(PostsEndpoint, net))
           tasks == [mcall.tasks EXCEPT ![i] = Task("done", mcall.tasks[i].arg, net, meta, res)]
           order == Append(mcall.order, i)
       IN  /\ mcall' = MethodCall("get_posts_count",
                                  IF Len(order) = Len(tasks) THEN "done" ELSE "running",
                                  NoNet, FALSE, GetPostsCount(tasks, order), tasks, order,
                                  NoStats)
           /\ last' = Call("_request", "GET", PostsEndpoint, "-", net, res, GetAuthHeaders, 1,
                           session)
    /\ UNCHANGED <<admin_api_key, session, owns_session, sessions, now, scope, api_url,
                   constructed>>

\* get_activitypub_stats building the Authorization header like _request.
StartActivitypubStats_authenticated ==
    /\ mcall.phase = "idle"
    /\ CanGetSession
    /\ LET s == GetSession
           h == GetAuthHeaders
           tasks == [i \in 1..2 |->
                       IF h.ok THEN Task("inflight", FetchKeys[i], NoNet, Absent, NoOutcome)
                       ELSE Task("done", FetchKeys[i], NoNet, Absent, Raise(h.exc, h.msg))]
           order == IF h.ok THEN <<>> ELSE <<1, 2>>
       IN  /\ session' = s.session
           /\ owns_session' = s.owns_session
           /\ sessions' = s.sessions
           /\ mcall' = MethodCall("get_activitypub_stats", IF h.ok THEN "running" ELSE "done",
                                  NoNet, FALSE, GetActivitypubStats(tasks, order, NoStats),
                                  tasks, order, NoStats)
    /\ UNCHANGED <<admin_api_key, now, scope, last, api_url, constructed>>

\* get_activitypub_stats up to the point where its two requests are sent.
StartActivitypubStats ==
    /\ mcall.phase = "idle"
    /\ CanGetSession
    /\ LET s == GetSession
           tasks == [i \in 1..2 |-> Task("inflight", FetchKeys[i], NoNet, Absent, NoOutcome)]
       IN  /\ session' = s.session
           /\ owns_session' = s.owns_session
           /\ sessions' = s.sessions
           /\ mcall' = MethodCall("get_activitypub_stats", "running", NoNet, FALSE,
                                  GetActivitypubStats(tasks, <<>>, NoStats), tasks, <<>>,
                                  NoStats)
    /\ UNCHANGED <<admin_api_key, now, scope, last, api_url, constructed>>

\* The response to request i of get_activitypub_stats arrives.
FinishFetch(i, net, totalItems) ==
    /\ mcall.op = "get_activitypub_stats"
    /\ mcall.phase = "running"
    /\ mcall.tasks[i].pc = "inflight"
    /\ ~SuccessDict(net) => totalItems = Absent
    /\ LET f == FetchCount(net, totalItems)
           tasks == [mcall.tasks EXCEPT ![i] = Task("done", mcall.tasks[i].arg, net, totalItems,
                                                    f.res)]
           order == Append(mcall.order, i)
           stats == IF f.set THEN [mcall.stats EXCEPT ![mcall.tasks[i].arg] = f.count]
                    ELSE mcall.stats
       IN  /\ mcall' = MethodCall("get_activitypub_stats",
                                  IF Len(order) = Len(tasks) THEN "done" ELSE "running",
                                  NoNet, FALSE, GetActivitypubStats(tasks, order, stats),
                                  tasks, order, stats)
           /\ last' = Call("fetch_count", "GET", mcall.tasks[i].arg, "-", net, f.res, NoTok, 1,
                           session)
    /\ UNCHANGED <<admin_api_key, session, owns_session, sessions, now, scope, api_url,
                   constructed>>

\* The call followed has returned or raised to its caller: the client is
\* ready for the next call.
Returned ==
    /\ mcall.phase = "done"
    /\ mcall' = NoMethodCall
    /\ UNCHANGED <<admin_api_key, session, owns_session, sessions, now, scope, last, api_url,
                   constructed>>

\* A client with a well-formed or a malformed credential, before any call.
InitMethods ==
    /\ admin_api_key \in {<<"z", ":", "a", "a">>, <<"z", "a">>}
    /\ \E borrowed \in BOOLEAN :
          /\ session = IF borrowed THEN 1 ELSE None
          /\ owns_session = ~borrowed
          /\ sessions = [i \in SessionIds |->
                           IF borrowed /\ i = 1 THEN NewSession("caller") ELSE NoSessionObject]
    /\ now = 0
    /\ scope = "outside"
    /\ last = NoCall
    /\ api_url = SampleUrl
    /\ constructed = TRUE
    /\ mcall = NoMethodCall

NextMethods ==
    \/ \E name \in SingleMethods, net \in MethodNets, found \in BOOLEAN : Method(name, net, found)
    \/ StartPostsCount
    \/ \E i \in 1..3, net \in GatherNets, meta \in Metas : FinishRequest(i, net, meta)
    \/ StartActivitypubStats
    \/ \E i \in 1..2, net \in GatherNets, totalItems \in AmountFields :
          FinishFetch(i, net, totalItems)
    \/ Returned

SpecMethods == InitMethods /\ [][NextMethods]_vars

\* ---- properties of the resource methods ----------------------------------

\* The pagination total a response carries, 0 when it carries none.
TotalIn(meta) ==
    IF meta.p /\ meta.v.pagination.p /\ meta.v.pagination.v.total.p
    THEN meta.v.pagination.v.total.v
    ELSE 0

\* The task of the running call whose argument is arg.
TaskOf(arg) == CHOOSE i \in 1..Len(mcall.tasks) : mcall.tasks[i].arg = arg

AllSucceeded ==
    \A i \in 1..Len(mcall.tasks) :
        mcall.tasks[i].pc = "done" /\ SuccessDict(mcall.tasks[i].net)

\* C13: get_posts_count sends three requests, one for each of the filters
\* status:published, status:draft and status:scheduled; when all three
\* succeed it returns, for each filter, the pagination total of the response
\* to the request with that filter (0 when the total is missing), whatever
\* the order of completion.
C13_PostsCountByFilter ==
    mcall.op = "get_posts_count" =>
        /\ Len(mcall.tasks) = 3
        /\ \A f \in {"status:published", "status:draft", "status:scheduled"} :
              Cardinality({i \in 1..3 : mcall.tasks[i].arg = f}) = 1
        /\ AllSucceeded =>
              /\ mcall.res.kind = "return"
              /\ mcall.res.value.items.published
                    = TotalIn(mcall.tasks[TaskOf("status:published")].extra)
              /\ mcall.res.value.items.drafts
                    = TotalIn(mcall.tasks[TaskOf("status:draft")].extra)
              /\ mcall.res.value.items.scheduled
                    = TotalIn(mcall.tasks[TaskOf("status:scheduled")].extra)

\* Reached: the three responses arrive scheduled, published, draft, with
\* totals 2, 1 and none.
C13_Witness ==
    /\ mcall.op = "get_posts_count"
    /\ mcall.order = <<3, 1, 2>>
    /\ AllSucceeded
    /\ TotalIn(mcall.tasks[1].extra) = 2
    /\ TotalIn(mcall.tasks[2].extra) = 1
    /\ ~mcall.tasks[3].extra.p
    /\ mcall.res.value.items = [published |-> 2, drafts |-> 1, scheduled |-> 0]

\* C14: get_posts_count returns counts only when all three requests have
\* completed without raising; once one of them has raised, the call raises
\* one of the failures of its requests and returns no counts.
C14_NoPartialCounts ==
    mcall.op = "get_posts_count" =>
        /\ mcall.res.kind = "return" =>
              \A i \in 1..3 : mcall.tasks[i].pc = "done" /\ mcall.tasks[i].res.kind = "return"
        /\ (\E i \in 1..3 : mcall.tasks[i].res.kind = "raise") =>
              /\ mcall.res.kind = "raise"
              /\ \E i \in 1..3 : mcall.res = mcall.tasks[i].res

\* Reached: two requests have succeeded, the third is answered 404, and the
\* call raises GhostNotFoundError.
C14_Witness ==
    /\ mcall.op = "get_posts_count"
    /\ mcall.order = <<1, 2, 3>>
    /\ SuccessDict(mcall.tasks[1].net)
    /\ SuccessDict(mcall.tasks[2].net)
    /\ mcall.tasks[3].net.status = 404
    /\ mcall.res.kind = "raise"
    /\ mcall.res.exc = "GhostNotFoundError"

\* C15: get_activitypub_stats never raises; when both requests are done it
\* returns both keys, a branch that did not succeed giving 0 for its key and
\* a branch that succeeded giving its totalItems, whatever the other branch
\* did and whichever finished first.
C15_ActivitypubNeverRaises ==
    mcall.op = "get_activitypub_stats" =>
        /\ mcall.res.kind # "raise"
        /\ mcall.phase = "done" =>
              /\ mcall.res.kind = "return"
              /\ \A i \in 1..2 :
                    LET t == mcall.tasks[i]
                        n == IF t.arg = "followers" THEN mcall.res.value.items.followers
                             ELSE mcall.res.value.items.following
                    IN  /\ ~SuccessDict(t.net) => n = 0
                        /\ (SuccessDict(t.net) /\ t.extra.p) => n = t.extra.v

\* Reached: following answers first with totalItems 2, then the followers
\* request times out.
C15_Witness ==
    /\ mcall.op = "get_activitypub_stats"
    /\ mcall.phase = "done"
    /\ mcall.order = <<2, 1>>
    /\ mcall.tasks[1].net.transport = "TimeoutError"
    /\ mcall.tasks[2].extra = Present(2)
    /\ mcall.res.value.items = [followers |-> 0, following |-> 2]

\* The request of the call followed was sent and answered with a status
\* below 400.
SuccessfulResponse ==
    last.calls = 1 /\ last.net.transport = "-" /\ last.net.status # 0 /\ last.net.status < 400

\* The request primitive raised in the call followed.
PrimitiveRaised == last.res.kind = "raise"

\* C16: answered 404, get_post and update_post return None and delete_post
\* returns False; delete_post returns True on every successful response;
\* every other error of the request primitive is raised unchanged by the
\* three.
C16_PostSentinels ==
    mcall.op \in {"get_post", "update_post", "delete_post"} =>
        /\ (last.calls = 1 /\ last.net.status = 404) =>
              mcall.res = Return(IF mcall.op = "delete_post" THEN PyFalse ELSE PyNone)
        /\ (mcall.op = "delete_post" /\ SuccessfulResponse) => mcall.res = Return(PyTrue)
        /\ (PrimitiveRaised /\ last.res.exc # "GhostNotFoundError") => mcall.res = last.res

PropagatingMethods ==
    {"get_site", "get_latest_post", "create_post", "update_post", "get_members_count",
     "get_mrr", "get_newsletters", "get_latest_email", "get_comments_count", "get_tiers",
     "create_webhook", "delete_webhook"}

\* The first failure among the requests of get_posts_count is what it raises.
PostsCountPropagates ==
    (mcall.op = "get_posts_count" /\ Raised(mcall.tasks, mcall.order) # {}) =>
        mcall.res = mcall.tasks[mcall.order[Earliest(Raised(mcall.tasks, mcall.order))]].res

\* C17: get_site, get_posts_count, get_latest_post, create_post, update_post,
\* get_members_count, get_mrr, get_newsletters, get_latest_email,
\* get_comments_count, get_tiers, create_webhook and delete_webhook raise
\* every error the request primitive raises, unchanged.
C17_AllOthersPropagate ==
    /\ (mcall.op \in PropagatingMethods /\ PrimitiveRaised) => mcall.res = last.res
    /\ PostsCountPropagates

\* C17, amended: the same, except that update_post returns None when the
\* request primitive raises GhostNotFoundError.
C17_PropagateExceptUpdateNotFound ==
    /\ (mcall.op \in PropagatingMethods /\ PrimitiveRaised) =>
          IF mcall.op = "update_post" /\ last.res.exc = "GhostNotFoundError"
          THEN mcall.res = Return(PyNone)
          ELSE mcall.res = last.res
    /\ PostsCountPropagates

\* Reached: update_post answered 401 raises the GhostAuthError of the request
\* primitive.
C17_Witness ==
    /\ mcall.op = "update_post"
    /\ last.net.status = 401
    /\ mcall.res.kind = "raise"
    /\ mcall.res.exc = "GhostAuthError"
    /\ mcall.res = last.res

\* C18: validate_credentials returns True exactly when its get_site call
\* succeeds, and returns False, never raising, when the credential is
\* malformed, the status is 401, 404, 422 or another status from 400 on, or
\* the transport fails.
C18_ValidateCredentials ==
    mcall.op = "validate_credentials" =>
        /\ (last.calls = 1 /\ SuccessDict(last.net)) => mcall.res = Return(PyTrue)
        /\ mcall.res = Return(PyTrue) => (last.calls = 1 /\ SuccessDict(last.net))
        /\ (last.calls = 0 \/ last.net.transport # "-" \/ last.net.status >= 400) =>
              mcall.res = Return(PyFalse)

\* ==== email statistics ====================================================

\* A key whose value may also be JSON null: absent, null, or a value.
Nullable(p, null, v) == [p |-> p, null |-> null, v |-> v]

\* "email": {"email_count": ..., "opened_count": ...}
EmailRecord(email_count, opened_count) ==
    [email_count |-> email_count, opened_count |-> opened_count]
NoEmailRecord == EmailRecord(Absent, Absent)
AbsentEmail == Nullable(FALSE, FALSE, NoEmailRecord)
NullEmail == Nullable(TRUE, TRUE, NoEmailRecord)

\* "count": {"clicks": ...}
AbsentClicks == Nullable(FALSE, FALSE, 0)
NullClicks == Nullable(TRUE, TRUE, 0)
CountRecord(clicks) == [clicks |-> clicks]
AbsentCount == [p |-> FALSE, v |-> CountRecord(AbsentClicks)]

\* A post as the posts endpoint returns it with include=email,count.clicks.
Post(title, email, count) == [title |-> title, email |-> email, count |-> count]

Counts == 0..MaxCount
CountFields == {Absent} \cup {Present(n) : n \in Counts}

\* The posts that carry an email record.
EmailPosts ==
    { Post("a", Nullable(TRUE, FALSE, EmailRecord(e, o)), c) :
        e \in CountFields, o \in CountFields,
        c \in {AbsentCount, Present(CountRecord(AbsentClicks)), Present(CountRecord(NullClicks))}
              \cup {Present(CountRecord(Nullable(TRUE, FALSE, n))) : n \in Counts} }

\* round(): to the nearest integer, a tie to the even one. num / den is
\* not negative.
Round(num, den) ==
    LET q == num \div den
        twice == 2 * (num % den)
    IN  IF twice < den THEN q
        ELSE IF twice > den THEN q + 1
        ELSE IF q % 2 = 0 THEN q ELSE q + 1

\* The rate dividing by at least 1 instead of testing for 0.
Rate_clamped(count, email_count) ==
    Round(count * 100, IF email_count > 0 THEN email_count ELSE 1)

\* round(count / email_count * 100) if email_count > 0 else 0
Rate(count, email_count) ==
    IF email_count > 0 THEN Round(count * 100, email_count) ELSE 0

\* count_data.get("clicks", 0) or 0
ClickedCount(count_data) ==
    IF ~count_data.clicks.p \/ count_data.clicks.null THEN 0 ELSE count_data.clicks.v

\* GhostAdminAPI._build_email_stats(post): the counts and rates of the dict
\* returned (the other keys are copied from the post and the email record).
BuildEmailStats(post) ==
    LET email == post.email.v
        email_count == DictGet(email.email_count, 0)
        opened_count == DictGet(email.opened_count, 0)
        count_data == DictGet(post.count, CountRecord(AbsentClicks))
        clicked_count == ClickedCount(count_data)
    IN  [title |-> post.title,
         email_count |-> email_count,
         opened_count |-> opened_count,
         clicked_count |-> clicked_count,
         open_rate |-> Rate(opened_count, email_count),
         click_rate |-> Rate(clicked_count, email_count)]

\* if post.get("email")
HasEmail(post) == post.email.p /\ ~post.email.null

\* The posts a response is made of: without an email key, with a null
\* email, and two with an email record.
PostSamples ==
    { Post("a", AbsentEmail, AbsentCount),
      Post("b", NullEmail, Present(CountRecord(AbsentClicks))),
      Post("c", Nullable(TRUE, FALSE, EmailRecord(Present(8), Present(1))),
           Present(CountRecord(Nullable(TRUE, FALSE, 2)))),
      Post("d", Nullable(TRUE, FALSE, EmailRecord(Present(0), Absent)), AbsentCount) }

\* The responses of the posts endpoint: {"posts": [...]} or {}.
EmailPayloads ==
    { [posts |-> d] :
        d \in {AbsentList} \cup {Present(l) : l \in ListsUpTo(PostSamples, MaxPosts)} }

\* The loop of get_latest_email returning the last post with an email.
RECURSIVE EmailLoop_last(_)
EmailLoop_last(posts) ==
    IF posts = <<>> THEN Return(PyNone)
    ELSE IF HasEmail(posts[Len(posts)]) THEN Return(Shaped(BuildEmailStats(posts[Len(posts)])))
    ELSE EmailLoop_last(SubSeq(posts, 1, Len(posts) - 1))

\* The loop of get_latest_email over data.get("posts", []).
RECURSIVE EmailLoop(_)
EmailLoop(posts) ==
    IF posts = <<>> THEN Return(PyNone)
    ELSE IF HasEmail(Head(posts)) THEN Return(Shaped(BuildEmailStats(Head(posts))))
    ELSE EmailLoop(Tail(posts))

\* get_latest_email: r is the outcome of its request, data the posts of the
\* response.
GetLatestEmailResult(r, data) ==
    IF r.kind = "raise" THEN r
    ELSE IF r.value.t # "dict" THEN Raise("AttributeError", "-")
    ELSE EmailLoop(DictGet(data.posts, <<>>))

\* get_latest_email(), the network answering net with the posts drawn.
CallGetLatestEmail(net) ==
    /\ mcall.op = "-"
    /\ mcall.method = "get_latest_email"
    /\ RequestCore("GET", PostsEndpoint, net)
    /\ mcall' = ShapeCall("get_latest_email", "get_latest_email", mcall.payload,
                          GetLatestEmailResult(last'.res, mcall.payload))
    /\ UNCHANGED <<api_url, constructed>>

\* _build_email_stats(post) on the post drawn.
CallBuildEmailStats ==
    /\ mcall.op = "-"
    /\ mcall.method = "_build_email_stats"
    /\ mcall' = ShapeCall("_build_email_stats", "_build_email_stats", mcall.payload,
                          Return(Shaped(BuildEmailStats(mcall.payload))))
    /\ UNCHANGED <<admin_api_key, session, owns_session, sessions, now, scope, last,
                   api_url, constructed>>

InitEmail ==
    /\ admin_api_key = <<"z", ":", "a", "a">>
    /\ session = None
    /\ owns_session = TRUE
    /\ sessions = [i \in SessionIds |-> NoSessionObject]
    /\ now = 0
    /\ scope = "outside"
    /\ last = NoCall
    /\ api_url = SampleUrl
    /\ constructed = TRUE
    /\ \/ \E p \in EmailPayloads : mcall = ShapeCall("-", "get_latest_email", p, NoOutcome)
       \/ \E p \in EmailPosts : mcall = ShapeCall("-", "_build_email_stats", p, NoOutcome)

NextEmail ==
    \/ \E net \in LifecycleNets : CallGetLatestEmail(net)
    \/ CallBuildEmailStats

SpecEmail == InitEmail /\ [][NextEmail]_vars

\* The posts of the response of the call followed.
PostsOf(payload) == IF payload.posts.p THEN payload.posts.v ELSE <<>>

\* The positions of the posts with an email record.
WithEmail(posts) == {i \in 1..Len(posts) : posts[i].email.p /\ ~posts[i].email.null}

\* C21: get_latest_email makes one request; when it is answered with posts,
\* the result is the statistics of the first post, in response order, that
\* has an email record, and None when no post has one.
C21_FirstPostWithEmail ==
    mcall.op = "get_latest_email" =>
        /\ last.op = "_request"
        /\ last.calls = 1
        /\ last.method = "GET"
        /\ last.res.kind = "return" =>
              LET posts == PostsOf(mcall.payload)
                  with == WithEmail(posts)
              IN  IF with = {}
                  THEN mcall.res = Return(PyNone)
                  ELSE \E i \in with :
                          /\ \A j \in with : i <= j
                          /\ mcall.res.kind = "return"
                          /\ mcall.res.value.items.title = posts[i].title
                          /\ mcall.res.value.items = BuildEmailStats(posts[i])

\* Reached: a post without email, then two posts with an email record; the
\* statistics are those of the second post of the response.
C21_Witness ==
    /\ mcall.op = "get_latest_email"
    /\ last.res.kind = "return"
    /\ Len(PostsOf(mcall.payload)) = 3
    /\ WithEmail(PostsOf(mcall.payload)) = {2, 3}
    /\ PostsOf(mcall.payload)[2].title = "c"
    /\ PostsOf(mcall.payload)[3].title = "d"
    /\ mcall.res.value.items.title = "c"

\* r is count out of total as a percentage, rounded to a nearest integer.
NearestPercent(r, count, total) ==
    /\ 2 * (100 * count - r * total) <= total
    /\ 2 * (r * total - 100 * count) <= total

\* C22: the statistics of an email record have open_rate = click_rate = 0
\* when email_count is 0 (or absent), and otherwise the rounded percentages
\* of opened_count and clicked_count over email_count; clicked_count is 0
\* when the click count is absent.
C22_RatesNoDivisionByZero ==
    mcall.op = "_build_email_stats" =>
        LET post == mcall.payload
            sent == IF post.email.v.email_count.p THEN post.email.v.email_count.v ELSE 0
            opened == IF post.email.v.opened_count.p THEN post.email.v.opened_count.v ELSE 0
            stats == mcall.res.value.items
        IN  /\ mcall.res.kind = "return"
            /\ sent = 0 => (stats.open_rate = 0 /\ stats.click_rate = 0)
            /\ sent > 0 => /\ NearestPercent(stats.open_rate, opened, sent)
                           /\ NearestPercent(stats.click_rate, stats.clicked_count, sent)
            /\ (~post.count.p \/ ~post.count.v.clicks.p) => stats.clicked_count = 0
            /\ (post.count.p /\ post.count.v.clicks.p /\ ~post.count.v.clicks.null) =>
                  stats.clicked_count = post.count.v.clicks.v

\* Reached: nothing sent but one opened and two clicked, and both rates 0.
C22_Witness ==
    /\ mcall.op = "_build_email_stats"
    /\ mcall.payload.email.v.email_count = Present(0)
    /\ mcall.payload.email.v.opened_count = Present(1)
    /\ mcall.res.value.items.clicked_count = 2
    /\ mcall.res.value.items.open_rate = 0
    /\ mcall.res.value.items.click_rate = 0

\* ==== the setup wizard ====================================================

\* str.isalnum() of one character
IsAlnum(c) == c \in {"a", "z"}

\* key_id.replace("_", "").isalnum(): not empty once the underscores are
\* removed, and alphanumeric throughout.
IdIsAlnum(key_id) ==
    LET replaced == SelectSeq(key_id, LAMBDA c : c # "_")
    IN  replaced # <<>> /\ \A i \in 1..Len(replaced) : IsAlnum(replaced[i])

\* validate_api_key without the test of the secret.
ValidateApiKey_anysecret(api_key) ==
    IF \A i \in 1..Len(api_key) : api_key[i] # ":" THEN FALSE
    ELSE LET parts == Split(api_key)
         IN  IF Len(parts) # 2 THEN FALSE ELSE IdIsAlnum(parts[1])

\* scripts/setup.py validate_api_key(api_key)
ValidateApiKey(api_key) ==
    IF \A i \in 1..Len(api_key) : api_key[i] # ":" THEN FALSE
    ELSE LET parts == Split(api_key)
         IN  IF Len(parts) # 2 THEN FALSE
             ELSE IF ~IdIsAlnum(parts[1]) THEN FALSE
             ELSE FromHex(parts[2]).ok

\* str.strip()
RECURSIVE Strip(_)
Strip(s) ==
    IF s # <<>> /\ IsSpace(Head(s)) THEN Strip(Tail(s))
    ELSE IF s # <<>> /\ IsSpace(s[Len(s)]) THEN Strip(SubSeq(s, 1, Len(s) - 1))
    ELSE s

WizardCall(op, input, key, accepted) ==
    [op |-> op, input |-> input, key |-> key, accepted |-> accepted]

\* One round of the key prompt of main(): the line typed is stripped, an
\* empty or invalid key is asked for again, a valid one ends up in .env and
\* is the credential of the client made from that configuration.
WizardKey ==
    /\ mcall.op = "-"
    /\ LET key == Strip(mcall.input)
           accepted == key # <<>> /\ ValidateApiKey(key)
       IN  /\ mcall' = WizardCall("setup", mcall.input, key, accepted)
           /\ admin_api_key' = IF accepted THEN key ELSE admin_api_key
    /\ UNCHANGED <<session, owns_session, sessions, now, scope, last, api_url, constructed>>

\* The client configured by the wizard generates a token.
WizardClientToken ==
    /\ mcall.op = "setup"
    /\ mcall.accepted
    /\ LET r == GenerateToken(admin_api_key, now)
       IN  last' = Call("_generate_token", "-", "-", "-", NoNet,
                        IF r.ok THEN Return(PyNone) ELSE Raise(r.exc, r.msg), r, 0, None)
    /\ UNCHANGED <<admin_api_key, session, owns_session, sessions, now, scope, api_url,
                   constructed, mcall>>

InitWizard ==
    /\ admin_api_key = <<>>
    /\ session = None
    /\ owns_session = TRUE
    /\ sessions = [i \in SessionIds |-> NoSessionObject]
    /\ now = 0
    /\ scope = "outside"
    /\ last = NoCall
    /\ api_url = SampleUrl
    /\ constructed = TRUE
    /\ \E input \in AllKeys : mcall = WizardCall("-", input, <<>>, FALSE)

NextWizard == WizardKey \/ WizardClientToken

SpecWizard == InitWizard /\ [][NextWizard]_vars

\* The Credential invariant: one colon, an identifier of alphanumeric
\* characters and underscores, a secret of pairs of hexadecimal digits.
CredentialInvariant(key) ==
    /\ ColonCount(key) = 1
    /\ \A i \in 1..Len(IdOf(key)) : IsAlnum(IdOf(key)[i]) \/ IdOf(key)[i] = "_"
    /\ ~NotHexadecimal(SecretOf(key))

\* C23: token generation succeeds only for a credential with exactly one
\* colon, an identifier of alphanumeric characters and underscores and a
\* hexadecimal secret, and then validate_api_key accepts the credential too.
C23_CredentialInvariant ==
    (last.op = "_generate_token" /\ last.res.kind = "return") =>
        /\ CredentialInvariant(admin_api_key)
        /\ ValidateApiKey(admin_api_key)

\* C29: a key the setup wizard accepts and writes is one from which the
\* client generates a token without raising.
C29_WizardWithinClient ==
    (mcall.op = "setup" /\ mcall.accepted /\ last.op = "_generate_token") =>
        /\ admin_api_key = mcall.key
        /\ last.res.kind = "return"
        /\ last.tok.ok

\* Reached: the wizard has accepted a key typed with a leading blank, and
\* the client has generated a token from it.
C29_Witness ==
    /\ mcall.op = "setup"
    /\ mcall.accepted
    /\ mcall.input = <<" ", "z", ":">>
    /\ admin_api_key = <<"z", ":">>
    /\ last.op = "_generate_token"
    /\ last.res.kind = "return"

\* ---- credentials, headers and the base URL in requests -------------------

\* The credential is one token generation rejects.
Malformed(key) == ColonCount(key) # 1 \/ NotHexadecimal(SecretOf(key))

\* C27: with a malformed credential a call of _request raises GhostAuthError
\* and issues no HTTP call; the session is acquired before that, so a client
\* that held no session holds a new, open session of its own afterwards.
C27_MalformedKeyNoCall ==
    /\ []((last.op = "_request" /\ ~last.tok.ok)
             => /\ last.res.kind = "raise"
                /\ last.res.exc = "GhostAuthError"
                /\ last.calls = 0
                /\ last.net = NoNet)
    /\ [][(last'.op = "_request" /\ last' # last /\ Malformed(admin_api_key))
             => /\ ~last'.tok.ok
                /\ last'.res.exc = "GhostAuthError"
                /\ last'.calls = 0
                /\ session = None
                      => /\ session' \in ClientSessions' \ ClientSessions
                         /\ ~sessions'[session'].closed
                         /\ owns_session']_vars

\* Reached: a client constructed without a session and with a malformed
\* credential has made a request, which failed, and holds an open session.
C27_Witness ==
    /\ last.op = "_request"
    /\ Malformed(admin_api_key)
    /\ last.res.exc = "GhostAuthError"
    /\ last.calls = 0
    /\ CallerSessions = {}
    /\ ClientSessions = {session}
    /\ ~sessions[session].closed
    /\ owns_session

\* The count a branch of get_activitypub_stats contributes, from its
\* response alone.
ExpectedCount(t) == IF SuccessDict(t.net) /\ t.extra.p THEN t.extra.v ELSE 0

\* C28: get_activitypub_stats generates no token: its requests carry none,
\* it does not raise whatever the credential is, and its result is
\* determined by the two responses alone.
C28_ActivitypubNoToken ==
    mcall.op = "get_activitypub_stats" =>
        /\ mcall.res.kind # "raise"
        /\ \A i \in 1..2 : mcall.tasks[i].res.kind # "raise"
        /\ last.op = "fetch_count" => last.tok = NoTok
        /\ mcall.phase = "done" =>
              mcall.res = Return(Shaped([followers |-> ExpectedCount(mcall.tasks[1]),
                                         following |-> ExpectedCount(mcall.tasks[2])]))

\* Reached: with a credential that has no colon, both counts are returned.
C28_Witness ==
    /\ mcall.op = "get_activitypub_stats"
    /\ mcall.phase = "done"
    /\ admin_api_key = <<"z", "a">>
    /\ last.op = "fetch_count"
    /\ mcall.res.kind = "return"
    /\ mcall.res.value.items = [followers |-> 2, following |-> 1]

\* C30: the base URL of a constructed client begins with https://, so that
\* base URL + endpoint is an https URL.
C30_StoredUrlSecure ==
    (mcall.op = "__init__" /\ mcall.res.kind = "return") =>
        /\ constructed
        /\ Len(api_url) >= 3
        /\ api_url[1] = "https:"
        /\ api_url[2] = "/"
        /\ api_url[3] = "/"

\* ==== concurrent requests, step by step ===================================

\* One of the concurrent _request calls: not yet run, waiting for its
\* response on the session it used, or done with its outcome.
Req(pc, used, net, res) == [pc |-> pc, used |-> used, net |-> net, res |-> res]

ConcurrentCall(op, phase, tasks, order, res) ==
    [op |-> op, phase |-> phase, tasks |-> tasks, order |-> order, res |-> res]

\* gather cancelling the other awaitables when one raises.
Settle_cancelling(tasks, i, req) ==
    [j \in 1..Len(tasks) |->
        IF j = i THEN req
        ELSE IF req.res.kind = "raise" /\ tasks[j].pc \in {"new", "inflight"}
        THEN Req("cancelled", tasks[j].used, NoNet, NoOutcome)
        ELSE tasks[j]]

\* The awaitables of gather after awaitable i has become req: the others are
\* left as they are, whether req raised or not.
Settle(tasks, i, req) == [tasks EXCEPT ![i] = req]

\* What await asyncio.gather(...) has given its caller so far.
GatherOutcome(tasks, order) ==
    IF Raised(tasks, order) # {} THEN tasks[order[Earliest(Raised(tasks, order))]].res
    ELSE IF Len(order) = Len(tasks) THEN Return(PyNone)
    ELSE NoOutcome

AllDone(tasks) == \A j \in 1..Len(tasks) : tasks[j].pc = "done"

\* get_posts_count hands its three _get calls to gather.
SpawnRequests ==
    /\ mcall.phase = "idle"
    /\ mcall' = ConcurrentCall("get_posts_count", "running",
                               [i \in 1..3 |-> Req("new", None, NoNet, NoOutcome)], <<>>,
                               NoOutcome)
    /\ UNCHANGED <<admin_api_key, session, owns_session, sessions, now, scope, last, api_url,
                   constructed>>

\* Call i runs up to its first suspension: _get_session, _get_auth_headers,
\* and the request is sent.
Issue(i) ==
    /\ mcall.op = "get_posts_count"
    /\ mcall.phase = "running"
    /\ mcall.tasks[i].pc = "new"
    /\ CanGetSession
    /\ LET s == GetSession
           h == GetAuthHeaders
           req == IF h.ok THEN Req("inflight", s.session, NoNet, NoOutcome)
                  ELSE Req("done", s.session, NoNet, Raise(h.exc, h.msg))
           tasks == Settle(mcall.tasks, i, req)
           order == IF h.ok THEN mcall.order ELSE Append(mcall.order, i)
       IN  /\ session' = s.session
           /\ owns_session' = s.owns_session
           /\ sessions' = s.sessions
           /\ mcall' = ConcurrentCall("get_posts_count",
                                      IF AllDone(tasks) THEN "done" ELSE "running",
                                      tasks, order, GatherOutcome(tasks, order))
    /\ UNCHANGED <<admin_api_key, now, scope, last, api_url, constructed>>

\* The request of call i ends: a response arrives or the transport fails.
Complete(i, net) ==
    /\ mcall.op = "get_posts_count"
    /\ mcall.phase = "running"
    /\ mcall.tasks[i].pc = "inflight"
    /\ LET req == Req("done", mcall.tasks[i].used, net, ExceptClause(TryBlock(PostsEndpoint, net)))
           tasks == Settle(mcall.tasks, i, req)
           order == Append(mcall.order, i)
       IN  mcall' = ConcurrentCall("get_posts_count",
                                   IF AllDone(tasks) THEN "done" ELSE "running",
                                   tasks, order, GatherOutcome(tasks, order))
    /\ UNCHANGED <<admin_api_key, session, owns_session, sessions, now, scope, last, api_url,
                   constructed>>

\* close() called while the concurrent calls are under way, or at any other
\* time: it closes the session and does nothing to the calls.
CloseMeanwhile ==
    /\ sessions' = CloseSessions
    /\ last' = Call("close", "-", "-", "-", NoNet, Return(PyNone), NoTok, 0, None)
    /\ UNCHANGED <<admin_api_key, session, owns_session, now, scope, api_url, constructed,
                   mcall>>

NextConcurrent ==
    \/ SpawnRequests
    \/ \E i \in 1..3 : Issue(i)
    \/ \E i \in 1..3, net \in LifecycleNets : Complete(i, net)
    \/ CloseMeanwhile
    \/ Returned

SpecConcurrent == InitMethods /\ [][NextConcurrent]_vars

\* Every request sent is answered or fails in the end: the network delivers
\* a response, or the transport gives up.
SpecConcurrentFair ==
    /\ SpecConcurrent
    /\ \A i \in 1..3 : WF_vars(\E net \in LifecycleNets : Complete(i, net))
    /\ WF_vars(Returned)

InFlight(i) == mcall.op = "get_posts_count" /\ mcall.tasks[i].pc = "inflight"
Completed(i) == mcall.op = "get_posts_count" /\ mcall.tasks[i].pc = "done"

C26_OneSessionOnFirstUse ==
    (CallerSessions = {} /\ \A s \in SessionIds : ~sessions[s].closed) =>
        /\ Cardinality(ClientSessions) <= 1
        /\ mcall.op = "get_posts_count" =>
              \A i \in 1..3 :
                  mcall.tasks[i].pc # "new" =>
                      /\ ClientSessions = {session}
                      /\ mcall.tasks[i].used = session

\* Reached: the three requests of get_posts_count are in flight on the one
\* session the first of them created.
C26_Witness ==
    /\ mcall.op = "get_posts_count"
    /\ CallerSessions = {}
    /\ \A i \in 1..3 : mcall.tasks[i].pc = "inflight" /\ mcall.tasks[i].used = session
    /\ ClientSessions = {session}
    /\ ~sessions[session].closed

\* ==== scripts/batch_posts.py ==============================================

MaxItems == 2

BatchOps == {"batch_create", "batch_update", "batch_delete"}

\* The client method an item of the batch calls.
CoreOf(op) ==
    CASE op = "batch_create" -> "create_post"
      [] op = "batch_update" -> "update_post"
      [] OTHER -> "delete_post"

\* Whether the items of the batch read a file before calling the client.
ReadsFile(op) == op # "batch_delete"

\* One coroutine handed to gather by the batch: its file can be read or not;
\* report is the line it has printed ("-" for none), res how it ended.
BatchItem(pc, readable, report, res) ==
    [pc |-> pc, readable |-> readable, report |-> report, res |-> res]

BatchCall(op, phase, dry_run, tasks, order, res) ==
    [op |-> op, phase |-> phase, dry_run |-> dry_run, tasks |-> tasks, order |-> order,
     res |-> res]

\* The line printed after the client call returned value.
Printed(op, value) ==
    CASE op = "batch_create" -> "ok"
      [] op = "batch_update" -> IF value = PyNone THEN "notfound" ELSE "ok"
      [] OTHER -> IF value = PyTrue THEN "ok" ELSE "notfound"

\* try: await api.<core>(...) / except GhostError: the item after the client
\* call ended as c. An exception that is not a GhostError leaves the item.
ItemOutcome(op, readable, c) ==
    IF c.kind = "raise"
    THEN IF IsInstance(c.exc, "GhostError")
         THEN BatchItem("done", readable, "failed", Return(PyNone))
         ELSE BatchItem("done", readable, "-", c)
    ELSE BatchItem("done", readable, Printed(op, c.value), Return(PyNone))

BatchFiles == UNION { [1..n -> BOOLEAN] : n \in 1..MaxItems }

\* main enters "async with GhostAdminAPI(...)" and calls batch_create,
\* batch_update or batch_delete, which hands one coroutine per file or id to
\* asyncio.gather.
BatchStart(op, dry_run, files) ==
    /\ mcall.phase = "idle"
    /\ scope = "outside"
    /\ ~ReadsFile(op) => \A i \in DOMAIN files : files[i]
    /\ scope' = "inside"
    /\ mcall' = BatchCall(op, "running", dry_run,
                          [i \in DOMAIN files |-> BatchItem("new", files[i], "-", NoOutcome)],
                          <<>>, NoOutcome)
    /\ UNCHANGED <<admin_api_key, session, owns_session, sessions, now, last, api_url,
                   constructed>>

\* Item i runs up to its first suspension, the items before it having done
\* so: it reads its file, returns on a dry run, otherwise calls the client,
\* which acquires the session, builds the headers and sends the request.
ItemStart(i) ==
    /\ mcall.op \in BatchOps
    /\ mcall.phase = "running"
    /\ i \in DOMAIN mcall.tasks
    /\ mcall.tasks[i].pc = "new"
    /\ \A j \in 1..(i - 1) : mcall.tasks[j].pc # "new"
    /\ CanGetSession
    /\ LET readable == mcall.tasks[i].readable
           calls == (ReadsFile(mcall.op) => readable) /\ ~mcall.dry_run
           s == GetSession
           h == GetAuthHeaders
           item == IF ReadsFile(mcall.op) /\ ~readable
                   THEN BatchItem("done", readable, "-", Raise("OSError", "-"))
                   ELSE IF mcall.dry_run
                   THEN BatchItem("done", readable, "dryrun", Return(PyNone))
                   ELSE IF ~h.ok
                   THEN ItemOutcome(mcall.op, readable,
                                    MethodResult(CoreOf(mcall.op), Raise(h.exc, h.msg), FALSE))
                   ELSE BatchItem("inflight", readable, "-", NoOutcome)
       IN  /\ session' = IF calls THEN s.session ELSE session
           /\ owns_session' = IF calls THEN s.owns_session ELSE owns_session
           /\ sessions' = IF calls THEN s.sessions ELSE sessions
           /\ mcall' = [mcall EXCEPT !.tasks[i] = item,
                                     !.order = IF item.pc = "done" THEN Append(@, i) ELSE @]
    /\ UNCHANGED <<admin_api_key, now, scope, last, api_url, constructed>>

\* The request of item i is answered or fails, and the item runs to its end.
\* This may still happen while the client is being closed after gather has
\* raised.
ItemFinish(i, net, found) ==
    /\ mcall.op \in BatchOps
    /\ mcall.phase \in {"running", "aborted"}
    /\ i \in DOMAIN mcall.tasks
    /\ mcall.tasks[i].pc = "inflight"
    /\ LET core == CoreOf(mcall.op)
           c == MethodResult(core, ExceptClause(TryBlock(Endpoint(core), net)), found)
       IN  mcall' = [mcall EXCEPT !.tasks[i] = ItemOutcome(mcall.op, mcall.tasks[i].readable, c),
                                  !.order = Append(@, i)]
    /\ UNCHANGED <<admin_api_key, session, owns_session, sessions, now, scope, last, api_url,
                   constructed>>

\* await asyncio.gather(*tasks) raises the first exception of an item; the
\* batch function and the "async with" block are left by it, and __aexit__
\* closes the client.
BatchAbort ==
    /\ mcall.op \in BatchOps
    /\ mcall.phase = "running"
    /\ \A i \in DOMAIN mcall.tasks : mcall.tasks[i].pc # "new"
    /\ Raised(mcall.tasks, mcall.order) # {}
    /\ mcall' = [mcall EXCEPT !.phase = "aborted",
                              !.res = mcall.tasks[mcall.order[Earliest(Raised(mcall.tasks,
                                                                           mcall.order))]].res]
    /\ sessions' = AExitSessions("exception")
    /\ scope' = "outside"
    /\ UNCHANGED <<admin_api_key, session, owns_session, now, last, api_url, constructed>>

\* main has raised: asyncio.run cancels the coroutines still waiting.
BatchTeardown ==
    /\ mcall.op \in BatchOps
    /\ mcall.phase = "aborted"
    /\ mcall' = [mcall EXCEPT
                   !.phase = "done",
                   !.tasks = [i \in DOMAIN mcall.tasks |->
                                IF mcall.tasks[i].pc = "inflight"
                                THEN BatchItem("cancelled", mcall.tasks[i].readable, "-",
                                               Raise("CancelledError", "-"))
                                ELSE mcall.tasks[i]]]
    /\ UNCHANGED <<admin_api_key, session, owns_session, sessions, now, scope, last, api_url,
                   constructed>>

\* Every item has ended without raising: gather returns, the batch function
\* returns and the "async with" block is left normally.
BatchComplete ==
    /\ mcall.op \in BatchOps
    /\ mcall.phase = "running"
    /\ \A i \in DOMAIN mcall.tasks : mcall.tasks[i].pc = "done"
    /\ Raised(mcall.tasks, mcall.order) = {}
    /\ mcall' = [mcall EXCEPT !.phase = "done", !.res = Return(PyNone)]
    /\ sessions' = AExitSessions("normal")
    /\ scope' = "outside"
    /\ UNCHANGED <<admin_api_key, session, owns_session, now, last, api_url, constructed>>

\* The script ends; the next run is a new process with a new client.
ProcessExit ==
    /\ mcall.op \in BatchOps
    /\ mcall.phase = "done"
    /\ mcall' = NoMethodCall
    /\ session' = None
    /\ owns_session' = TRUE
    /\ sessions' = [i \in SessionIds |-> NoSessionObject]
    /\ UNCHANGED <<admin_api_key, now, scope, last, api_url, constructed>>

\* The client main constructs: no session supplied, a well-formed or a
\* malformed key from the environment.
InitBatch ==
    /\ admin_api_key \in {<<"z", ":", "a", "a">>, <<"z", "a">>}
    /\ session = None
    /\ owns_session = TRUE
    /\ sessions = [i \in SessionIds |-> NoSessionObject]
    /\ now = 0
    /\ scope = "outside"
    /\ last = NoCall
    /\ api_url = SampleUrl
    /\ constructed = TRUE
    /\ mcall = NoMethodCall

NextBatch ==
    \/ \E op \in BatchOps, dry_run \in BOOLEAN, files \in BatchFiles :
          BatchStart(op, dry_run, files)
    \/ \E i \in 1..MaxItems : ItemStart(i)
    \/ \E i \in 1..MaxItems, net \in GatherNets, found \in BOOLEAN : ItemFinish(i, net, found)
    \/ BatchAbort
    \/ BatchTeardown
    \/ BatchComplete
    \/ ProcessExit

SpecBatch == InitBatch /\ [][NextBatch]_vars

\* C25: a batch is never left by the exception of one item: every item that
\* has ended has printed its own report, none is cancelled, and gather does
\* not raise.
C25_FailuresReportedPerItem ==
    mcall.op \in BatchOps =>
        /\ mcall.phase # "aborted"
        /\ \A i \in DOMAIN mcall.tasks :
              /\ mcall.tasks[i].pc # "cancelled"
              /\ mcall.tasks[i].pc = "done" => mcall.tasks[i].report # "-"

====
